---- MODULE Spec2Model ----
(***************************************************************************)
(* Model of discord_presence.py: the media-detection cascade, the filters  *)
(* of detect_media, the presence state machine (current_media,             *)
(* start_timestamp), the connection to the presence backend (rpc) and the  *)
(* poll loop of main.                                                      *)
(*                                                                         *)
(* Strings are sequences of one-character strings, so that the substring   *)
(* tests of the source ("readme" in title) are computed, not assumed.      *)
(***************************************************************************)
EXTENDS Integers, Sequences, FiniteSets, TLC

(***************************************************************************)
(* Bounds of the model.                                                    *)
(***************************************************************************)
\* last clock value at which a poll cycle of the general specification starts
MaxTime == 16
\* last clock value at which a poll cycle of the long-running specification starts
MaxLongTime == 188
\* largest processing time (whole seconds, rounding of int(time.time())
\* included) a poll cycle adds to its sleeps
MaxProc == 1
\* last clock value at which a poll cycle of the idle specification starts
MaxIdleTime == 285
\* largest number of titled top-level windows on the desktop
MaxWindows == 3
\* largest number of processes in the process list
MaxProcs == 2
\* last clock value at which a poll cycle of the push specification starts
MaxPushTime == 11

(***************************************************************************)
(* Program constants.                                                      *)
(***************************************************************************)
\* "if start_timestamp and (current_time - start_timestamp) % 180 < 5"
RefreshPeriod == 180
RefreshWindow == 5
\* main: current_interval = 5 / 15 / 30, thresholds 5 and 20, 3 errors
BaseInterval == 5
MidInterval == 15
LongInterval == 30
IdleStep1 == 5
IdleStep2 == 20
ErrorThreshold == 3
\* update_presence: time.sleep(1.0) before the image tier and the button tier
TierSleep == 1
\* reconnect_discord: time.sleep(3)
ReconnectSleep == 3
\* detect_media: len(title) < 5
MinTitleLen == 5
\* connect_to_discord: max_retries = 5
max_retries == 5
\* Python None where the source holds an optional int (season, episode,
\* start_timestamp is modelled with 0 for None: int(time.time()) is never 0)
NoNum == -1

(***************************************************************************)
(* Strings.                                                                *)
(***************************************************************************)
UpperChars == <<"A","B","C","D","E","F","G","H","I","J","K","L","M",
                "N","O","P","Q","R","S","T","U","V","W","X","Y","Z">>
LowerChars == <<"a","b","c","d","e","f","g","h","i","j","k","l","m",
                "n","o","p","q","r","s","t","u","v","w","x","y","z">>

\* str.lower() on one character
LowerChar(c) ==
    IF \E i \in 1..Len(UpperChars) : UpperChars[i] = c
    THEN LowerChars[CHOOSE i \in 1..Len(UpperChars) : UpperChars[i] = c]
    ELSE c

\* str.lower()
Lower(s) == [i \in 1..Len(s) |-> LowerChar(s[i])]

\* str.upper()
Upper(s) ==
    [i \in 1..Len(s) |->
        IF \E k \in 1..Len(LowerChars) : LowerChars[k] = s[i]
        THEN UpperChars[CHOOSE k \in 1..Len(LowerChars) : LowerChars[k] = s[i]]
        ELSE s[i]]

\* Python's "p in s" for strings
Contains(s, p) ==
    \E i \in 1..(Len(s) - Len(p) + 1) : SubSeq(s, i, i + Len(p) - 1) = p

\* any(p in s for p in patterns)
ContainsAny(s, patterns) == \E p \in patterns : Contains(s, p)

\* the characters \s and str.strip() take for white space; a window title
\* holds no line break
WhiteSpace == {" ", "\t"}
DigitChars == <<"0","1","2","3","4","5","6","7","8","9">>
DigitSet == {DigitChars[i] : i \in 1..10}

\* int() of one digit
DigitVal(c) == (CHOOSE i \in 1..10 : DigitChars[i] = c) - 1

\* int() of a string of digits
RECURSIVE ToInt(_)
ToInt(ds) ==
    IF ds = <<>> THEN 0
    ELSE 10 * ToInt(SubSeq(ds, 1, Len(ds) - 1)) + DigitVal(ds[Len(ds)])

\* s[n:]
Drop(s, n) == SubSeq(s, n + 1, Len(s))

\* str.startswith
StartsWith(s, p) == Len(p) <= Len(s) /\ SubSeq(s, 1, Len(p)) = p

\* the index after the longest run of characters of cs that starts at i
\* (what a greedy \s+ or \d+ consumes from i)
RECURSIVE RunEnd(_, _, _)
RunEnd(s, i, cs) ==
    IF i <= Len(s) /\ s[i] \in cs THEN RunEnd(s, i + 1, cs) ELSE i

\* str.strip()
Strip(s) ==
    LET first == RunEnd(s, 1, WhiteSpace)
        keep == { i \in first..Len(s) : s[i] \notin WhiteSpace }
    IN  IF keep = {} THEN <<>>
        ELSE SubSeq(s, first, CHOOSE i \in keep : \A j \in keep : j <= i)

\* s.replace(p, ""): every occurrence of p, from the left, is taken out
RECURSIVE Remove(_, _)
Remove(s, p) ==
    LET hits == { i \in 1..(Len(s) - Len(p) + 1) :
                    SubSeq(s, i, i + Len(p) - 1) = p }
        first == CHOOSE i \in hits : \A j \in hits : i <= j
    IN  IF hits = {} THEN s
        ELSE SubSeq(s, 1, first - 1) \o Remove(Drop(s, first + Len(p) - 1), p)

\* the character U+2013 is written "endash"

(***************************************************************************)
(* Client identities (DISCORD_CLIENT_ID, NETFLIX_CLIENT_ID,                *)
(* DISNEY_CLIENT_ID).  The model takes the configuration in which the      *)
(* .env file sets the three of them to different applications, which is    *)
(* the set-up the source asks for ("Make sure you've set up the separate   *)
(* Client IDs for Disney+ and Netflix").                                   *)
(***************************************************************************)
DISCORD_CLIENT_ID == "default_app"
NETFLIX_CLIENT_ID == "netflix_app"
DISNEY_CLIENT_ID == "disney_app"

Netflix == "Netflix"
Disney == "Disney+"

\* the client identity bound to a service (detect_media, lines 1260-1267)
ClientIdFor(service) ==
    IF service = Disney THEN DISNEY_CLIENT_ID
    ELSE IF service = Netflix THEN NETFLIX_CLIENT_ID
    ELSE DISCORD_CLIENT_ID

(***************************************************************************)
(* Media records.  One record shape stands for the dicts of the source:    *)
(* py = "None" is Python's None, py = "raise" stands for a collector that  *)
(* raised, py = "dict" is a dict; a key the dict lacks holds NoNum, <<>>   *)
(* or FALSE, which is what .get() makes of it in the tests of the source.  *)
(***************************************************************************)
Blank(py) ==
    [py |-> py, isWatching |-> FALSE, service |-> "", title |-> <<>>,
     type |-> "", season |-> NoNum, episode |-> NoNum, episodeTitle |-> <<>>,
     detected_by_system |-> FALSE]

None == Blank("None")
Raised == Blank("raise")
\* {"isWatching": False}
NotWatching == Blank("dict")

Media(service, title, type, season, episode, episodeTitle, bySystem) ==
    [py |-> "dict", isWatching |-> TRUE, service |-> service, title |-> title,
     type |-> type, season |-> season, episode |-> episode,
     episodeTitle |-> episodeTitle, detected_by_system |-> bySystem]

\* Python truthiness of a collector's result or of current_media: None is
\* false, a dict with at least one key is true
Truthy(m) == m.py = "dict"

(***************************************************************************)
(* clean_title, lines 112-159.  re.sub replaces the matches it finds from  *)
(* the left; \s+ before a literal that begins with another character takes *)
(* the whole run of white space.                                           *)
(***************************************************************************)
\* lines 119-125
DisneyCleanPatterns == << <<" ","|"," ","D","i","s","n","e","y","+">>, <<" ","-"," ","D","i","s","n","e","y","+">>, <<" ","endash"," ","D","i","s","n","e","y","+">>,
                          <<"D","i","s","n","e","y","+"," ","-"," ">>, <<" ","D","i","s","n","e","y","+">> >>
\* lines 130-135
NetflixCleanPatterns == << <<" ","-"," ","N","e","t","f","l","i","x">>, <<" ","|"," ","N","e","t","f","l","i","x">>, <<"N","e","t","f","l","i","x"," ","-"," ">>,
                           <<" ","N","e","t","f","l","i","x">> >>
\* lines 143-145
BrowserSuffixes == << <<"-"," ","G","o","o","g","l","e"," ","C","h","r","o","m","e">>, <<"-"," ","B","r","a","v","e">>, <<"-"," ","F","i","r","e","f","o","x">> >>
\* line 157; the characters U+2013 and U+2014 are written "endash", "emdash"
SeparatorChars == {" ", "|", ":", "-", "endash", "emdash"}
WatchPrefix == <<"W","a","t","c","h"," ">>

\* lines 126-127 and 136-137: the replacements, in the order of the list
RECURSIVE RemoveEach(_, _)
RemoveEach(s, patterns) ==
    IF patterns = <<>> THEN s
    ELSE RemoveEach(Remove(s, Head(patterns)), Tail(patterns))

\* r'\s+' followed by the literal matches at i
WsThen(s, i, lit) ==
    /\ i <= Len(s) /\ s[i] \in WhiteSpace
    /\ StartsWith(Drop(s, RunEnd(s, i, WhiteSpace) - 1), lit)

\* the index after the white space and the literal that match at i
WsThenEnd(s, i, lit) == RunEnd(s, i, WhiteSpace) + Len(lit)

Least(S) == CHOOSE i \in S : \A j \in S : i <= j
Greatest(S) == CHOOSE i \in S : \A j \in S : j <= i

\* a pattern that ends in .* takes everything from its first match
CutFrom(s, hits) == IF hits = {} THEN s ELSE SubSeq(s, 1, Least(hits) - 1)

\* line 140: r'\s+and \d+ more pages.*'
MorePagesAt(s, i) ==
    /\ WsThen(s, i, <<"a","n","d"," ">>)
    /\ LET d == WsThenEnd(s, i, <<"a","n","d"," ">>)
       IN  /\ RunEnd(s, d, DigitSet) > d
           /\ StartsWith(Drop(s, RunEnd(s, d, DigitSet) - 1), <<" ","m","o","r","e"," ","p","a","g","e","s">>)

\* line 142: r'\s+- Microsoft.*Edge', .* reaching to the last "Edge"
RemoveEdge(s) ==
    LET edges(i) == { k \in WsThenEnd(s, i, <<"-"," ","M","i","c","r","o","s","o","f","t">>)..Len(s) :
                        StartsWith(Drop(s, k - 1), <<"E","d","g","e">>) }
        hits == { i \in 1..Len(s) :
                    WsThen(s, i, <<"-"," ","M","i","c","r","o","s","o","f","t">>) /\ edges(i) # {} }
    IN  IF hits = {} THEN s
        ELSE SubSeq(s, 1, Least(hits) - 1)
             \o Drop(s, Greatest(edges(Least(hits))) + 3)

\* lines 143-145: every r'\s+<literal>' is taken out
RECURSIVE RemoveWsThen(_, _)
RemoveWsThen(s, lit) ==
    LET hits == { i \in 1..Len(s) : WsThen(s, i, lit) }
    IN  IF hits = {} THEN s
        ELSE SubSeq(s, 1, Least(hits) - 1)
             \o RemoveWsThen(Drop(s, WsThenEnd(s, Least(hits), lit) - 1), lit)

\* line 152: r'\s+on\s*$'
TrailingOnAt(s, i) ==
    /\ WsThen(s, i, <<"o","n">>)
    /\ RunEnd(s, WsThenEnd(s, i, <<"o","n">>), WhiteSpace) = Len(s) + 1

\* line 153: r'^\s*on\s+'
RemoveLeadingOn(s) ==
    LET b == RunEnd(s, 1, WhiteSpace)
        e == RunEnd(s, b + 2, WhiteSpace)
    IN  IF StartsWith(Drop(s, b - 1), <<"o","n">>) /\ e > b + 2
        THEN Drop(s, e - 1) ELSE s

\* line 154: every r'\s+on\s+' becomes one blank
RECURSIVE CollapseOn(_)
CollapseOn(s) ==
    LET hits == { i \in 1..Len(s) :
                    /\ WsThen(s, i, <<"o","n">>)
                    /\ RunEnd(s, WsThenEnd(s, i, <<"o","n">>), WhiteSpace)
                         > WsThenEnd(s, i, <<"o","n">>) }
    IN  IF hits = {} THEN s
        ELSE SubSeq(s, 1, Least(hits) - 1) \o <<" ">>
             \o CollapseOn(Drop(s, RunEnd(s, WsThenEnd(s, Least(hits), <<"o","n">>),
                                          WhiteSpace) - 1))

\* str.strip(chars)
StripChars(s, cs) ==
    LET keep == { i \in 1..Len(s) : s[i] \notin cs }
    IN  IF keep = {} THEN <<>> ELSE SubSeq(s, Least(keep), Greatest(keep))

clean_title(title, service) ==
    LET a == IF service = Disney THEN RemoveEach(title, DisneyCleanPatterns)
             ELSE IF service = Netflix THEN RemoveEach(title, NetflixCleanPatterns)
             ELSE title
        b == CutFrom(a, { i \in 1..Len(a) : MorePagesAt(a, i) })
        c == CutFrom(b, { i \in 1..Len(b) : WsThen(b, i, <<"-"," ","P","e","r","s","o","n","a","l">>) })
        d == RemoveEdge(c)
        e == RemoveWsThen(RemoveWsThen(RemoveWsThen(d, BrowserSuffixes[1]),
                                       BrowserSuffixes[2]), BrowserSuffixes[3])
        f == IF StartsWith(e, WatchPrefix) THEN Drop(e, Len(WatchPrefix)) ELSE e
        g == CutFrom(f, { i \in 1..Len(f) : TrailingOnAt(f, i) })
        h == CollapseOn(RemoveLeadingOn(g))
    IN  Strip(StripChars(h, SeparatorChars))

(***************************************************************************)
(* The title parsers, lines 161-229.  re.match anchors the pattern at the  *)
(* start of the title only; (.*?) is the shortest prefix after which the   *)
(* rest of the pattern matches.                                            *)
(***************************************************************************)
NETFLIX_APP_NAME == <<"N","e","t","f","l","i","x">>
DISNEY_APP_NAME == <<"D","i","s","n","e","y","+">>
NetflixPrefix == <<"N","e","t","f","l","i","x"," ","-"," ">>
DisneyPrefix == <<"D","i","s","n","e","y","+"," ","-"," ">>
\* line 196 and line 212
DisneyBranding == << <<" ","|"," ","D","i","s","n","e","y","+">>, <<" ","-"," ","D","i","s","n","e","y","+">>,
                     <<" ","endash"," ","D","i","s","n","e","y","+">>, <<"D","i","s","n","e","y","+">> >>

\* the dict a parser returns; a key it leaves out, or sets to None, holds
\* NoNum or <<>>
Parsed(title, type, season, episode, episodeTitle) ==
    [title |-> title, type |-> type, season |-> season, episode |-> episode,
     episodeTitle |-> episodeTitle]

\* the prefix (.*?) of the longest length that lets the pattern match
ShowName_Greedy(lengths) == CHOOSE n \in lengths : \A m \in lengths : m <= n

\* the prefix (.*?) settles on: the shortest one that lets the pattern match
ShowName(lengths) == CHOOSE n \in lengths : \A m \in lengths : n <= m

\* (?:\s+(.+))? on what follows the episode number: group 4, or <<>> when
\* the group takes no part in the match
NetflixTail(rest) ==
    LET e == RunEnd(rest, 1, WhiteSpace)
    IN  IF e = 1 THEN <<>>
        ELSE IF e <= Len(rest) THEN Drop(rest, e - 1)
        ELSE IF Len(rest) >= 2 THEN <<rest[Len(rest)]>>
        ELSE <<>>

\* (?:\s+-\s+(.+))? on what follows the episode number
DisneyTail(rest) ==
    LET e1 == RunEnd(rest, 1, WhiteSpace)
        dash == e1 > 1 /\ e1 <= Len(rest) /\ rest[e1] = "-"
        e2 == RunEnd(rest, e1 + 1, WhiteSpace)
    IN  IF ~dash \/ e2 = e1 + 1 THEN <<>>
        ELSE IF e2 <= Len(rest) THEN Drop(rest, e2 - 1)
        ELSE IF e2 - (e1 + 1) >= 2 THEN <<rest[Len(rest)]>>
        ELSE <<>>

\* ":\s+S(\d+):E(\d+)" read from index n + 1 of s: the index after the
\* episode number, 0 when the text does not match there
NetflixEpisodeAt(s, n) ==
    LET e1 == RunEnd(s, n + 2, WhiteSpace)
        e2 == RunEnd(s, e1 + 1, DigitSet)
        e3 == RunEnd(s, e2 + 2, DigitSet)
    IN  IF /\ n + 1 <= Len(s) /\ s[n + 1] = ":"
           /\ e1 > n + 2
           /\ e1 <= Len(s) /\ s[e1] = "S"
           /\ e2 > e1 + 1
           /\ e2 + 1 <= Len(s) /\ s[e2] = ":" /\ s[e2 + 1] = "E"
           /\ e3 > e2 + 2
        THEN e3 ELSE 0

\* "\s+-\s+S(\d+)E(\d+)" read from index n + 1 of s
DisneyEpisodeAt(s, n) ==
    LET e1 == RunEnd(s, n + 1, WhiteSpace)
        e2 == RunEnd(s, e1 + 1, WhiteSpace)
        e3 == RunEnd(s, e2 + 1, DigitSet)
        e4 == RunEnd(s, e3 + 1, DigitSet)
    IN  IF /\ e1 > n + 1
           /\ e1 <= Len(s) /\ s[e1] = "-"
           /\ e2 > e1 + 1
           /\ e2 <= Len(s) /\ s[e2] = "S"
           /\ e3 > e2 + 1
           /\ e3 <= Len(s) /\ s[e3] = "E"
           /\ e4 > e3 + 1
        THEN e4 ELSE 0

\* parse_netflix_title, lines 161-184
parse_netflix_title(raw) ==
    LET title == IF StartsWith(raw, NetflixPrefix)
                 THEN Drop(raw, Len(NetflixPrefix)) ELSE raw
        lengths == { n \in 0..Len(title) : NetflixEpisodeAt(title, n) # 0 }
    IN  IF lengths # {}
        THEN LET n == ShowName(lengths)
                 e1 == RunEnd(title, n + 2, WhiteSpace)
                 e2 == RunEnd(title, e1 + 1, DigitSet)
                 e3 == NetflixEpisodeAt(title, n)
             IN  Parsed(Strip(SubSeq(title, 1, n)), "show",
                        ToInt(SubSeq(title, e1 + 1, e2 - 1)),
                        ToInt(SubSeq(title, e2 + 2, e3 - 1)),
                        Strip(NetflixTail(Drop(title, e3 - 1))))
        ELSE Parsed(Strip(title), "movie", NoNum, NoNum, <<>>)

\* lines 196-198 and 212-214: the replacements, in the order of the list
StripDisneyBranding(s) ==
    Remove(Remove(Remove(Remove(s, DisneyBranding[1]), DisneyBranding[2]),
                  DisneyBranding[3]), DisneyBranding[4])

\* parse_disney_title, lines 186-229
parse_disney_title(raw) ==
    LET unprefixed == IF StartsWith(raw, DisneyPrefix)
                      THEN Drop(raw, Len(DisneyPrefix)) ELSE raw
        cleaned == Strip(StripDisneyBranding(unprefixed))
        lengths == { n \in 0..Len(cleaned) :
                       DisneyEpisodeAt(cleaned, n) # 0 }
    IN  IF lengths # {}
        THEN LET n == ShowName(lengths)
                 e1 == RunEnd(cleaned, n + 1, WhiteSpace)
                 e2 == RunEnd(cleaned, e1 + 1, WhiteSpace)
                 e3 == RunEnd(cleaned, e2 + 1, DigitSet)
                 e4 == DisneyEpisodeAt(cleaned, n)
             IN  Parsed(Strip(SubSeq(cleaned, 1, n)), "show",
                        ToInt(SubSeq(cleaned, e2 + 1, e3 - 1)),
                        ToInt(SubSeq(cleaned, e3 + 1, e4 - 1)),
                        Strip(StripDisneyBranding(
                                Strip(DisneyTail(Drop(cleaned, e4 - 1))))))
        ELSE Parsed(cleaned, "movie", NoNum, NoNum, <<>>)

(***************************************************************************)
(* The filters of detect_media.                                            *)
(***************************************************************************)
DocTerms == { <<"r","e","a","d","m","e">>, <<".","m","d">>,
              <<"d","o","c","u","m","e","n","t","a","t","i","o","n">> }

DevTerms == { <<"r","e","p","o">>, <<"r","e","p","o","s","i","t","o","r","y">>,
              <<"p","r","o","j","e","c","t">>, <<"f","o","l","d","e","r">>,
              <<"f","i","l","e">>, <<"c","o","d","e">>,
              <<"g","i","t","h","u","b">> }

ProjectTerms == { <<"d","i","s","n","e","y"," ","+"," ","&"," ","n","e","t","f","l","i","x">>,
                  <<"s","t","r","e","a","m","i","n","g">> }

ignore_patterns == {
      <<".","e","n","v">>,
      <<"s","e","t","t","i","n","g","s">>,
      <<"c","o","n","f","i","g">>,
      <<"c","u","r","s","o","r">>,
      <<"v","i","s","u","a","l"," ","s","t","u","d","i","o">>,
      <<"v","s","c","o","d","e">>,
      <<"c","o","d","e"," ","e","d","i","t","o","r">>,
      <<"d","i","s","c","o","r","d">>,
      <<"s","e","t","t","i","n","g","s",".","j","s","o","n">>,
      <<"e","x","p","l","o","r","e","r">>,
      <<"f","i","l","e">>,
      <<"f","o","l","d","e","r">>,
      <<"c","m","d">>,
      <<"c","o","m","m","a","n","d">>,
      <<"p","o","w","e","r","s","h","e","l","l">>,
      <<"t","e","r","m","i","n","a","l">>,
      <<"p","y","t","h","o","n">>,
      <<"r","e","a","d","m","e">>,
      <<"g","i","t","h","u","b">>,
      <<".","m","d">>,
      <<"m","a","r","k","d","o","w","n">>,
      <<"d","o","c","u","m","e","n","t","a","t","i","o","n">>,
      <<"n","o","t","e","p","a","d">>,
      <<"e","d","i","t","o","r">>,
      <<"s","e","t","t","i","n","g">>,
      <<"p","r","e","f","e","r","e","n","c","e">>,
      <<"p","r","o","f","i","l","e">>,
      <<"a","c","c","o","u","n","t">>,
      <<"l","o","g","i","n">>,
      <<"s","i","g","n"," ","i","n">>,
      <<"g","u","i","d","e">>,
      <<"t","u","t","o","r","i","a","l">>,
      <<"h","e","l","p">>,
      <<"s","u","p","p","o","r","t">>,
      <<"d","o","w","n","l","o","a","d">>,
      <<"u","p","l","o","a","d">>,
      <<"i","n","s","t","a","l","l">>,
      <<"s","e","t","u","p">>,
      <<"c","o","n","f","i","g","u","r","e">>,
      <<"j","s","o","n">>,
      <<"x","m","l">>,
      <<"y","a","m","l">>,
      <<"i","n","i">>,
      <<"c","o","n","f">>,
      <<"l","o","g">>,
      <<"t","x","t">>,
      <<"t","e","x","t">>,
      <<"d","o","c","u","m","e","n","t">>,
      <<"l","i","c","e","n","s","e">>,
      <<"c","o","p","y","r","i","g","h","t">>,
      <<"a","b","o","u","t">>,
      <<"i","n","f","o","r","m","a","t","i","o","n">>,
      <<"r","e","a","d","m","e",".","m","d">>,
      <<"d","i","s","n","e","y"," ","+"," ","&"," ","n","e","t","f","l","i","x">>,
      <<"s","t","r","e","a","m","i","n","g">>,
      <<"p","r","e","s","e","n","c","e">>,
      <<"r","i","c","h"," ","p","r","e","s","e","n","c","e">>,
      <<"d","i","s","c","o","r","d"," ","p","r","e","s","e","n","c","e">> }

\* the terms of lines 1150, 1155 and 1160
BlanketTerms == DocTerms \cup DevTerms \cup ProjectTerms

\* the filter passing over the records of the system-process collector
BlanketFilter_TrustSystem(m) ==
    IF ~m.isWatching \/ m.detected_by_system THEN m
    ELSE IF ContainsAny(Lower(m.title), BlanketTerms) THEN NotWatching
    ELSE IF Len(m.title) < MinTitleLen THEN NotWatching
    ELSE m

\* lines 1144-1167: the filter applied to the selected record whatever its
\* provenance; the result is the record, or {"isWatching": False}
BlanketFilter(m) ==
    IF ~m.isWatching THEN m
    ELSE LET title == Lower(m.title) IN
         IF ContainsAny(title, DocTerms) THEN NotWatching
         ELSE IF ContainsAny(title, DevTerms) THEN NotWatching
         ELSE IF ContainsAny(title, ProjectTerms) THEN NotWatching
         ELSE IF Len(title) < MinTitleLen /\ ~m.detected_by_system THEN NotWatching
         ELSE m

\* the pattern test without the lower-casing of the title
FalsePositive_CaseSensitive(m) ==
    /\ ~m.detected_by_system
    /\ ContainsAny(m.title, ignore_patterns)

\* lines 1186-1205: TRUE when the record is dropped as a false positive
FalsePositive(m) ==
    /\ ~m.detected_by_system
    /\ ContainsAny(Lower(m.title), ignore_patterns)

(***************************************************************************)
(* What the collectors can return.  The windows and processes of the       *)
(* desktop are the environment; each poll cycle draws one result per       *)
(* collector.                                                              *)
(***************************************************************************)
T_ShowA == <<"S","h","o","w"," ","A">>
T_Encanto == <<"E","n","c","a","n","t","o">>
T_HelpCenter == <<"H","e","l","p"," ","C","e","n","t","e","r">>
T_ReadmeNotes == <<"r","e","a","d","m","e"," ","n","o","t","e","s">>
T_DisneyContent == <<"D","i","s","n","e","y","+"," ","C","o","n","t","e","n","t">>

\* check_system_processes, lines 995-1001: the generic Disney+ record
S_DisneyGeneric == Media(Disney, T_DisneyContent, "unknown", NoNum, NoNum, <<>>, TRUE)
\* check_native_apps on a window "Netflix - Show A: S1:E1" / "... S1:E2"
N_ShowA1 == Media(Netflix, T_ShowA, "show", 1, 1, <<>>, FALSE)
N_ShowA2 == Media(Netflix, T_ShowA, "show", 1, 2, <<>>, FALSE)
\* check_native_apps on a window "Netflix - Show A: S1:E1 Chapter One"
N_ShowA1Titled ==
    Media(Netflix, T_ShowA, "show", 1, 1,
          <<"C","h","a","p","t","e","r"," ","O","n","e">>, FALSE)
\* check_native_apps on a window "Disney+ - Encanto"
N_Encanto == Media(Disney, T_Encanto, "movie", NoNum, NoNum, <<>>, FALSE)
\* check_native_apps on a window "Netflix - Help Center" / "Netflix - readme notes"
N_HelpCenter == Media(Netflix, T_HelpCenter, "movie", NoNum, NoNum, <<>>, FALSE)
N_ReadmeNotes == Media(Netflix, T_ReadmeNotes, "movie", NoNum, NoNum, <<>>, FALSE)

\* check_system_processes, lines 978-991, with Disney+.exe running and a
\* window "Disney+ - readme notes": parse_disney_title gives the title
S_ReadmeNotes == Media(Disney, T_ReadmeNotes, "movie", NoNum, NoNum, <<>>, TRUE)

\* check_system_processes, lines 978-991, with Disney+.exe running and the
\* application's window "Disney+": parse_disney_title strips the whole title
S_DisneyBare == Media(Disney, <<>>, "movie", NoNum, NoNum, <<>>, TRUE)

\* check_system_processes catches every exception and returns None
SysResults == {None, S_DisneyGeneric, S_ReadmeNotes, S_DisneyBare}
\* check_native_apps has no handler: a failing window call raises
NatResults == {None, Raised, N_ShowA1, N_ShowA2, N_Encanto, N_HelpCenter, N_ReadmeNotes}
\* what check_browser_tabs meets: no streaming tab, a streaming tab in a
\* running browser, or a process that vanishes while the browsers are listed
BrowserEnvs == {"none", "tab", "raise"}

(***************************************************************************)
(* check_native_apps, lines 825-927.  The desktop is the list EnumWindows  *)
(* gives (windows with a title, in its order) and the handle of the        *)
(* foreground window, 0 for one that is not in the list.                   *)
(***************************************************************************)
Window(hwnd, title, visible) == [hwnd |-> hwnd, title |-> title, visible |-> visible]

\* line 870
NativeIgnored == { <<".","e","n","v">>, <<"s","e","t","t","i","n","g","s">>,
                   <<"c","u","r","s","o","r">>, <<"c","o","d","e"," ","e","d","i","t","o","r">> }

\* an entry of streaming_apps
App(service, parsed, hwnd, visible) ==
    [rec |-> Media(service, parsed.title, parsed.type, parsed.season,
                   parsed.episode, parsed.episodeTitle, FALSE),
     window_hwnd |-> hwnd, is_visible |-> visible]

\* lines 835-856 and 873-895: the entries one window adds to streaming_apps
AppsOf(title, hwnd, visible) ==
    (IF Contains(title, NETFLIX_APP_NAME)
     THEN <<App(Netflix, parse_netflix_title(title), hwnd, visible)>> ELSE <<>>)
    \o (IF Contains(title, DISNEY_APP_NAME)
        THEN <<App(Disney, parse_disney_title(title), hwnd, visible)>> ELSE <<>>)

\* lines 861-895: the loop over the windows other than the foreground one
RECURSIVE BackgroundApps(_, _)
BackgroundApps(windows, fg) ==
    IF windows = <<>> THEN <<>>
    ELSE LET w == Head(windows)
             skip == \/ w.hwnd = fg
                     \/ w.title = <<>>
                     \/ ContainsAny(Lower(w.title), NativeIgnored)
         IN  (IF skip THEN <<>> ELSE AppsOf(w.title, w.hwnd, w.visible))
             \o BackgroundApps(Tail(windows), fg)

\* lines 828-895: streaming_apps
StreamingApps(windows, fg) ==
    LET active == { i \in DOMAIN windows : windows[i].hwnd = fg }
        active_window_title == IF active = {} THEN <<>>
                               ELSE windows[CHOOSE i \in active : TRUE].title
    IN  AppsOf(active_window_title, fg, TRUE) \o BackgroundApps(windows, fg)

\* the choice that prefers a visible window to a minimized one
SelectApp_PreferVisible(streaming_apps, fg) ==
    LET active == { i \in DOMAIN streaming_apps :
                      streaming_apps[i].window_hwnd = fg }
        shown == { i \in DOMAIN streaming_apps : streaming_apps[i].is_visible }
    IN  IF active # {}
        THEN streaming_apps[CHOOSE i \in active : \A j \in active : i <= j]
        ELSE IF shown # {}
        THEN streaming_apps[CHOOSE i \in shown : \A j \in shown : i <= j]
        ELSE streaming_apps[1]

\* lines 905-927: the entry of the foreground window, else the first entry
SelectApp(streaming_apps, fg) ==
    LET active == { i \in DOMAIN streaming_apps :
                      streaming_apps[i].window_hwnd = fg }
    IN  IF active # {}
        THEN streaming_apps[CHOOSE i \in active : \A j \in active : i <= j]
        ELSE streaming_apps[1]

check_native_apps(windows, fg) ==
    LET streaming_apps == StreamingApps(windows, fg)
    IN  IF streaming_apps = <<>> THEN None
        ELSE SelectApp(streaming_apps, fg).rec

(***************************************************************************)
(* check_system_processes, lines 929-1120.  Its inputs are the process     *)
(* list psutil gives (name and joined command line, in its order) and the  *)
(* list of titled windows, in the order of the enumeration.                *)
(***************************************************************************)
Proc(name, cmdline) == [name |-> name, cmdline |-> cmdline]

\* line 937, in lower case as line 948 compares them
disney_process_names == { <<"d","i","s","n","e","y","+",".","e","x","e">>, <<"w","w","a","h","o","s","t",".","e","x","e">>,
                          <<"a","p","p","l","i","c","a","t","i","o","n","f","r","a","m","e","h","o","s","t",".","e","x","e">>, <<"e","x","p","l","o","r","e","r",".","e","x","e">> }
\* line 938, in lower case as line 1017 compares them
netflix_process_names == { <<"n","e","t","f","l","i","x",".","e","x","e">>, <<"w","w","a","h","o","s","t",".","e","x","e">>,
                           <<"a","p","p","l","i","c","a","t","i","o","n","f","r","a","m","e","h","o","s","t",".","e","x","e">> }
\* line 952
DisneyGenericHosts == { <<"a","p","p","l","i","c","a","t","i","o","n","f","r","a","m","e","h","o","s","t",".","e","x","e">>, <<"w","w","a","h","o","s","t",".","e","x","e">>,
                        <<"e","x","p","l","o","r","e","r",".","e","x","e">> }
\* line 1021
NetflixGenericHosts == { <<"a","p","p","l","i","c","a","t","i","o","n","f","r","a","m","e","h","o","s","t",".","e","x","e">>, <<"w","w","a","h","o","s","t",".","e","x","e">> }
\* line 954 and line 1022
DisneyCmdTerms == { <<"d","i","s","n","e","y">>, <<"d","i","s","n","e","y","p","l","u","s">> }
NetflixCmdTerms == { <<"n","e","t","f","l","i","x">> }
\* line 1081
MultiTabMarkers == { <<"m","o","r","e"," ","p","a","g","e","s">>, <<"m","o","r","e"," ","t","a","b">>, <<"a","n","d"," ","t","a","b">> }
\* lines 1085-1089
BrowserTabFalsePositives ==
    { <<"r","e","a","d","m","e">>, <<".","m","d">>, <<"d","o","c","u","m","e","n","t","a","t","i","o","n">>, <<"g","i","t","h","u","b">>, <<"d","e","v","e","l","o","p","e","r">>,
      <<"p","r","o","g","r","a","m","m","i","n","g">>, <<"c","o","d","e">>, <<"d","i","s","n","e","y"," ","+"," ","&"," ","n","e","t","f","l","i","x">> }

T_NetflixContent == <<"N","e","t","f","l","i","x"," ","C","o","n","t","e","n","t">>
\* lines 1055-1061 and 1095-1101: the generic Netflix record
S_NetflixGeneric == Media(Netflix, T_NetflixContent, "unknown", NoNum, NoNum, <<>>, TRUE)

\* lines 957-959, 978-981, 1025-1027, 1041-1044: the title of the first
\* window that carries the name, <<>> when there is none
FirstWindowWith(windows, name) ==
    LET hits == { i \in DOMAIN windows : Contains(windows[i].title, name) }
    IN  IF hits = {} THEN <<>>
        ELSE windows[CHOOSE i \in hits : \A j \in hits : i <= j].title

\* lines 962-968, 985-991, 1028-1033, 1047-1052: the parsed title, marked
SystemRecord(service, parsed) ==
    Media(service, parsed.title, parsed.type, parsed.season, parsed.episode,
          parsed.episodeTitle, TRUE)

\* lines 948-973 and 1017-1037: the process bears one of the names and, if
\* the name is a generic host's, the command line or some window names the
\* service
Hosts(p, names, generic, cmd_terms, app_name, windows) ==
    /\ Lower(p.name) \in names
    /\ \/ Lower(p.name) \notin generic
       \/ ContainsAny(Lower(p.cmdline), cmd_terms)
       \/ FirstWindowWith(windows, app_name) # <<>>

\* lines 941-1008: the first process hosting Disney+ decides
DisneyPass(procs, windows) ==
    IF \E i \in DOMAIN procs :
          Hosts(procs[i], disney_process_names, DisneyGenericHosts,
                DisneyCmdTerms, DISNEY_APP_NAME, windows)
    THEN LET window_title == FirstWindowWith(windows, DISNEY_APP_NAME)
         IN  IF window_title # <<>>
             THEN SystemRecord(Disney, parse_disney_title(window_title))
             ELSE S_DisneyGeneric
    ELSE None

\* lines 1011-1067: the first process hosting Netflix decides
NetflixPass(procs, windows) ==
    IF \E i \in DOMAIN procs :
          Hosts(procs[i], netflix_process_names, NetflixGenericHosts,
                NetflixCmdTerms, NETFLIX_APP_NAME, windows)
    THEN LET window_title == FirstWindowWith(windows, NETFLIX_APP_NAME)
         IN  IF window_title # <<>>
             THEN SystemRecord(Netflix, parse_netflix_title(window_title))
             ELSE S_NetflixGeneric
    ELSE None

\* lines 1071-1113: the first browser window with several tabs whose title
\* names a service and carries none of the false-positive patterns
BrowserPass(windows) ==
    LET hits == { i \in DOMAIN windows :
                    /\ \/ Contains(windows[i].title, NETFLIX_APP_NAME)
                       \/ Contains(windows[i].title, DISNEY_APP_NAME)
                    /\ ContainsAny(windows[i].title, MultiTabMarkers)
                    /\ ~ContainsAny(Lower(windows[i].title),
                                    BrowserTabFalsePositives) }
    IN  IF hits = {} THEN None
        ELSE LET title == windows[CHOOSE i \in hits : \A j \in hits : i <= j].title
             IN  IF Contains(title, NETFLIX_APP_NAME) THEN S_NetflixGeneric
                 ELSE S_DisneyGeneric

\* the passes with the Netflix processes examined first
check_system_processes_NetflixFirst(procs, windows) ==
    IF NetflixPass(procs, windows) # None THEN NetflixPass(procs, windows)
    ELSE IF DisneyPass(procs, windows) # None THEN DisneyPass(procs, windows)
    ELSE BrowserPass(windows)

check_system_processes(procs, windows) ==
    IF DisneyPass(procs, windows) # None THEN DisneyPass(procs, windows)
    ELSE IF NetflixPass(procs, windows) # None THEN NetflixPass(procs, windows)
    ELSE BrowserPass(windows)

\* check_browser_tabs.  The function assigns the name clean_title, so the
\* name is local to it and every call clean_title(title, ...) (lines 274,
\* 317, 355, 372) raises UnboundLocalError; the handler of line 388 catches
\* it and goes on to the next browser.  streaming_windows stays empty and
\* the collector returns None (line 394) whatever the tabs are.  Line 241
\* (proc.name()) is outside the handler and can raise.
check_browser_tabs(env) == IF env = "raise" THEN Raised ELSE None

\* lines 260-263: the markers of a documentation window
BrowserDocMarkers == { <<"r","e","a","d","m","e">>, <<".","m","d">>, <<"d","o","c","u","m","e","n","t","a","t","i","o","n">>, <<"g","i","t","h","u","b">>, <<".","t","x","t">>,
                       <<"l","i","c","e","n","s","e">>, <<"c","o","d","i","n","g">>, <<"p","r","o","g","r","a","m","m","i","n","g">>, <<"d","e","v","e","l","o","p","e","r">> }

\* lines 268, 306-307, 354 and 371: the service a browser window's title
\* points to, "" when it points to none
ServiceSignature(title) ==
    IF \/ Contains(title, NETFLIX_APP_NAME)
       \/ Contains(Lower(title), <<"n","e","t","f","l","i","x",".","c","o","m">>)
    THEN Netflix
    ELSE IF \/ Contains(Lower(title), <<"d","i","s","n","e","y","+">>)
            \/ Contains(Lower(title), <<"d","i","s","n","e","y","p","l","u","s">>)
    THEN Disney
    ELSE ""

\* lines 240-386: what the window of a running, supported browser is to the
\* collector
BrowserEnvOf(title) ==
    IF /\ ServiceSignature(title) # ""
       /\ ~ContainsAny(Lower(title), BrowserDocMarkers)
    THEN "tab" ELSE "none"

\* the filters, tabulated once over the records the collectors return
Candidates == (SysResults \cup NatResults \cup {N_ShowA1Titled}) \ {None, Raised}
BlanketTable == [m \in Candidates \cup {NotWatching} |-> BlanketFilter(m)]
FalsePositiveTable == [m \in Candidates |-> FalsePositive(m)]

(***************************************************************************)
(* The presence backend.  rpc is the module global: exists is              *)
(* "'rpc' in globals() and rpc" (a Presence object is always true), id the *)
(* client identity the object was built with, open whether its connect()   *)
(* succeeded and close() has not been called since.                        *)
(***************************************************************************)
NoRpc == [exists |-> FALSE, id |-> "", open |-> FALSE]
Presence(id, open) == [exists |-> TRUE, id |-> id, open |-> open]

\* one call on the backend client, as the backend's side sees it.  timeout:
\* the call failed with "No response was received from the pipe in time";
\* small_image and buttons: what the activity of an update carries besides
\* details, state and large_image
Call(op, conn, service, tier, ok) ==
    [op |-> op, id |-> conn.id, open |-> conn.open, service |-> service,
     tier |-> tier, ok |-> ok, timeout |-> FALSE, small_image |-> FALSE,
     buttons |-> 0]

\* How the backend answers during one poll cycle: connect (conn), clear and
\* close (clr), the first basic update (t1: "ok", "timeout" = the error
\* "No response was received from the pipe in time", "error" = any other),
\* the connect of reconnect_discord (reconn), the basic update after it
\* (retry), the image and the button update (t2, t3), and whether the
\* metadata service finds an image (img).  A call on a client that is not
\* connected fails whatever the backend would answer.
Answer(conn, clr, t1, reconn, retry, t2, t3, img) ==
    [conn |-> conn, clr |-> clr, t1 |-> t1, reconn |-> reconn, retry |-> retry,
     t2 |-> t2, t3 |-> t3, img |-> img]

BackendUp == Answer(TRUE, TRUE, "ok", TRUE, TRUE, TRUE, TRUE, TRUE)
BackendDown == Answer(FALSE, FALSE, "error", FALSE, FALSE, FALSE, FALSE, TRUE)
BackendTimeoutRecover == Answer(TRUE, TRUE, "timeout", TRUE, TRUE, TRUE, TRUE, TRUE)
\* the basic update is accepted, the image and the button update are refused
BackendBasicOnly == Answer(TRUE, TRUE, "ok", TRUE, TRUE, FALSE, FALSE, TRUE)

Backends == {BackendUp, BackendDown, BackendTimeoutRecover, BackendBasicOnly}

\* reconnect_discord, lines 800-823: close (errors ignored), sleep, a new
\* client under DISCORD_CLIENT_ID, connect.  rpc is assigned before
\* connect() is called, so a failed connect leaves the new, unconnected
\* client in rpc.
reconnect_discord(rpc0, be) ==
    LET closing == IF rpc0.exists
                   THEN <<Call("close", rpc0, "", 0, rpc0.open /\ be.clr)>>
                   ELSE <<>>
        fresh == Presence(DISCORD_CLIENT_ID, be.reconn)
    IN  [rpc |-> fresh,
         calls |-> closing \o <<Call("connect", fresh, "", 0, be.reconn)>>,
         slept |-> ReconnectSleep,
         ok |-> be.reconn]

\* lines 689-691 and 705-706: the longest text shown, and what is kept of a
\* longer one before the dots
MaxDisplayLen == 100
KeptLen == 97
Ellipsis == <<".",".",".">>

Truncate(s) ==
    IF Len(s) > MaxDisplayLen THEN SubSeq(s, 1, KeptLen) \o Ellipsis ELSE s

\* str() of a number that is not negative
RECURSIVE Str(_)
Str(n) ==
    IF n < 10 THEN <<DigitChars[n + 1]>>
    ELSE Str(n \div 10) \o <<DigitChars[(n % 10) + 1]>>

\* the service's name as the f-string of line 710 writes it
ServiceText(service) ==
    IF service = Netflix THEN NETFLIX_APP_NAME ELSE DISNEY_APP_NAME

\* lines 686-691
display_title(media_info) ==
    Truncate(clean_title(media_info.title, media_info.service))

\* line 694
large_image_key(service) == IF service = Netflix THEN "netflix" ELSE "disney"

\* line 695: media_info.get(...) taken as a condition is false for a
\* missing key, for None and for 0
NumberGiven(n) == n # NoNum /\ n # 0

\* lines 695-710
state_line(media_info) ==
    IF /\ media_info.type = "show"
       /\ NumberGiven(media_info.season) /\ NumberGiven(media_info.episode)
    THEN LET numbers == <<"S">> \o Str(media_info.season) \o <<":","E">>
                        \o Str(media_info.episode)
             cleaned == clean_title(media_info.episodeTitle, media_info.service)
             clean_episode_title ==
                 CutFrom(cleaned, { i \in 1..Len(cleaned) :
                                      TrailingOnAt(cleaned, i) })
         IN  IF media_info.episodeTitle # <<>>
             THEN Truncate(numbers \o <<" ","-"," ">> \o clean_episode_title)
             ELSE numbers
    ELSE <<"W","a","t","c","h","i","n","g"," ","o","n"," ">> \o ServiceText(media_info.service)

\* lines 713-717, 749-759 and 784-791: the activity of each tier
minimal_activity == [small_image |-> FALSE, buttons |-> <<>>]

image_activity == [minimal_activity EXCEPT !.small_image = TRUE]

\* with_image: image_activity is among the locals, the image tier was entered
full_activity(with_image, service) ==
    [(IF with_image THEN image_activity ELSE minimal_activity)
        EXCEPT !.buttons = << [label |-> <<"Watch on ", service>>,
                               url |-> IF service = Netflix THEN "https://www.netflix.com"
                                       ELSE IF service = Disney THEN "https://www.disneyplus.com"
                                       ELSE ""] >>]

\* rpc.update(**activity)
Update(conn, service, tier, outcome, activity) ==
    [Call("update", conn, service, tier, outcome = "ok")
        EXCEPT !.timeout = (outcome = "timeout"),
               !.small_image = activity.small_image,
               !.buttons = Len(activity.buttons)]

\* a reconnect and a second try after any failure of the basic update
IsPipeTimeout_AnyError(outcome) == outcome # "ok"

\* line 731: the failure carries the signature of a pipe timeout
IsPipeTimeout(outcome) == outcome = "timeout"

\* the image tier entered without regard to the basic update
Tier2Attempted_WithoutBasic(update_successful, image) == image

\* line 743
Tier2Attempted(update_successful, image) == update_successful /\ image

\* the button tier only when the image tier did not fail
Tier3Attempted_ImageDone(update_successful, tier2, tier2_ok) ==
    update_successful /\ (tier2 => tier2_ok)

\* line 771: tier2, tier2_ok say whether the image tier was entered and
\* whether its update was accepted; the test reads neither
Tier3Attempted(update_successful, tier2, tier2_ok) == update_successful

\* update_presence, lines 719-798: the tiered update
update_presence(media_info, image, rpc0, be) ==
    LET first == IF ~rpc0.open THEN "error" ELSE be.t1
        c1 == <<Update(rpc0, media_info.service, 1, first, minimal_activity)>>
        rec == IF first # "ok" /\ IsPipeTimeout(first)
               THEN reconnect_discord(rpc0, be)
               ELSE [rpc |-> rpc0, calls |-> <<>>, slept |-> 0, ok |-> FALSE]
        rpc1 == rec.rpc
        retried == first # "ok" /\ IsPipeTimeout(first) /\ rec.ok
        c1r == IF retried
               THEN <<Update(rpc1, media_info.service, 1,
                             IF be.retry THEN "ok" ELSE "error",
                             minimal_activity)>>
               ELSE <<>>
        update_successful == first = "ok" \/ (retried /\ be.retry)
        tier2 == Tier2Attempted(update_successful, image)
        tier2_ok == rpc1.open /\ be.t2
        c2 == IF tier2
              THEN <<Update(rpc1, media_info.service, 2,
                            IF tier2_ok THEN "ok" ELSE "error",
                            image_activity)>>
              ELSE <<>>
        tier3 == Tier3Attempted(update_successful, tier2, tier2_ok)
        c3 == IF tier3
              THEN <<Update(rpc1, media_info.service, 3,
                            IF rpc1.open /\ be.t3 THEN "ok" ELSE "error",
                            full_activity(tier2, media_info.service))>>
              ELSE <<>>
    IN  [rpc |-> rpc1,
         calls |-> c1 \o rec.calls \o c1r \o c2 \o c3,
         slept |-> rec.slept + (IF tier2 THEN TierSleep ELSE 0)
                             + (IF tier3 THEN TierSleep ELSE 0),
         ok |-> update_successful]

(***************************************************************************)
(* detect_media, lines 1122-1290.                                          *)
(***************************************************************************)
\* the cascade in the order it had before "CHANGE ORDER": native app first
Cascade_NativeFirst(sysR, natR, brwR) ==
    IF natR = Raised THEN Raised
    ELSE IF Truthy(natR) THEN natR
    ELSE IF Truthy(sysR) THEN sysR
    ELSE IF brwR = Raised THEN Raised
    ELSE IF Truthy(brwR) THEN brwR
    ELSE NotWatching

\* a cascade that goes on to the next collector when the filters of
\* detect_media would reject a collector's candidate
Cascade_SkipRejected(sysR, natR, brwR) ==
    LET passes(m) == /\ Truthy(m)
                     /\ BlanketTable[m].isWatching
                     /\ ~FalsePositiveTable[m]
    IN  IF passes(sysR) THEN sysR
        ELSE IF natR = Raised THEN Raised
        ELSE IF passes(natR) THEN natR
        ELSE IF brwR = Raised THEN Raised
        ELSE IF passes(brwR) THEN brwR
        ELSE IF Truthy(sysR) THEN sysR
        ELSE IF Truthy(natR) THEN natR
        ELSE NotWatching

\* lines 1128-1142: the cascade over the three collectors.  Each argument
\* is what the collector returns when it is called; a collector is called
\* only if the ones before it returned nothing, and an exception of
\* check_native_apps or check_browser_tabs leaves detect_media.
Cascade(sysR, natR, brwR) ==
    IF Truthy(sysR) THEN sysR
    ELSE IF natR = Raised THEN Raised
    ELSE IF Truthy(natR) THEN natR
    ELSE IF brwR = Raised THEN Raised
    ELSE IF Truthy(brwR) THEN brwR
    ELSE NotWatching

\* lines 1130-1138: the collectors detect_media calls, in the order of the
\* calls; the filters come after the last of them
Consulted(sysR, natR, brwR) ==
    IF Truthy(sysR) THEN <<"system">>
    ELSE IF natR = Raised \/ Truthy(natR) THEN <<"system", "native">>
    ELSE <<"system", "native", "browser">>

\* the clearing with the guard testing for a live connection, not for a client
ClearPresence_OnlyWhenOpen(cur, rpc0, be) ==
    [current_media |-> None,
     calls |-> IF Truthy(cur) /\ rpc0.open
               THEN <<Call("clear", rpc0, "", 0, be.clr)>>
               ELSE <<>>]

\* the clearing without the test for a snapshot
ClearPresence_Unconditional(cur, rpc0, be) ==
    [current_media |-> None,
     calls |-> IF rpc0.exists
               THEN <<Call("clear", rpc0, "", 0, rpc0.open /\ be.clr)>>
               ELSE <<>>]

\* lines 1172-1181 and 1207-1216: drop the snapshot and clear the presence
ClearPresence(cur, rpc0, be) ==
    [current_media |-> None,
     calls |-> IF Truthy(cur) /\ rpc0.exists
               THEN <<Call("clear", rpc0, "", 0, rpc0.open /\ be.clr)>>
               ELSE <<>>]

\* the comparison of the whole record
ContentChanged_AnyField(cur, m) == ~Truthy(cur) \/ m # cur

\* lines 1236-1241 without force_update: the record differs from the snapshot
ContentChanged(cur, m) ==
    \/ ~Truthy(cur)
    \/ m.service # cur.service
    \/ m.title # cur.title
    \/ m.episode # cur.episode
    \/ m.season # cur.season

\* the boundary test with a window longer than the shortest poll interval
ForceUpdate_LongWindow(st, t) ==
    st # 0 /\ (t - st) % RefreshPeriod < RefreshWindow + BaseInterval

\* the boundary test with <= for <
ForceUpdate_Inclusive(st, t) ==
    st # 0 /\ (t - st) % RefreshPeriod <= RefreshWindow

\* lines 1231-1233
ForceUpdate(st, t) == st # 0 /\ (t - st) % RefreshPeriod < RefreshWindow

\* the timestamp reset on every synchronization
NewStartTimestamp_Always(st, t, force_update) == t

\* lines 1245-1247
NewStartTimestamp(st, t, force_update) ==
    IF ~force_update \/ st = 0 THEN t ELSE st

\* lines 1249-1275: close the connection and open one for the service
Reopen(rpc0, m, be) ==
    LET cleared == rpc0.open /\ be.clr
        closing == IF ~rpc0.exists THEN <<>>
                   ELSE IF cleared
                        THEN << Call("clear", rpc0, "", 0, TRUE),
                                Call("close", rpc0, "", 0, TRUE) >>
                        ELSE << Call("clear", rpc0, "", 0, FALSE) >>
        fresh == Presence(ClientIdFor(m.service), be.conn)
    IN  [rpc |-> fresh,
         calls |-> closing \o <<Call("connect", fresh, m.service, 0, be.conn)>>]

\* the result of a cycle that changes nothing
Quiet(cur, st, rpc0, selected, path, force) ==
    [raised |-> path = "raise", path |-> path, selected |-> selected,
     rec |-> NotWatching, force |-> force, current_media |-> cur,
     start_timestamp |-> st, rpc |-> rpc0, calls |-> <<>>, lookups |-> 0,
     image |-> FALSE, slept |-> 0, pushed |-> FALSE]

\* lines 1221-1290: the state machine, for a record m that passed the filters
Evaluate(cur, st, rpc0, t, m, be) ==
    LET service_changed == Truthy(cur) /\ cur.service # m.service
        force_update == ForceUpdate(st, t)
    IN  IF ContentChanged(cur, m) \/ force_update
        THEN LET re == IF service_changed \/ ~rpc0.exists
                       THEN Reopen(rpc0, m, be)
                       ELSE [rpc |-> rpc0, calls |-> <<>>]
                 up == update_presence(m, be.img, re.rpc, be)
             IN  [raised |-> FALSE, path |-> "sync", selected |-> m, rec |-> m,
                  force |-> force_update,
                  current_media |-> m,
                  start_timestamp |-> NewStartTimestamp(st, t, force_update),
                  rpc |-> up.rpc, calls |-> re.calls \o up.calls,
                  lookups |-> 1, image |-> be.img, slept |-> up.slept,
                  pushed |-> up.ok]
        ELSE [Quiet(cur, st, rpc0, m, "noop", force_update) EXCEPT !.rec = m]

detect_media(cur, st, rpc0, t, sysR, natR, brwR, be) ==
    LET selected == Cascade(sysR, natR, brwR)
    IN  IF selected = Raised
        THEN Quiet(cur, st, rpc0, Raised, "raise", FALSE)
        ELSE LET filtered == BlanketTable[selected]
                 rejected == IF ~selected.isWatching THEN "none"
                             ELSE IF ~filtered.isWatching THEN "blanket"
                             ELSE IF FalsePositiveTable[filtered] THEN "pattern"
                             ELSE ""
             IN  IF rejected # ""
                 THEN LET cl == ClearPresence(cur, rpc0, be)
                      IN  [Quiet(cur, st, rpc0, selected, rejected, FALSE)
                             EXCEPT !.current_media = cl.current_media,
                                    !.calls = cl.calls]
                 ELSE [Evaluate(cur, st, rpc0, t, filtered, be)
                         EXCEPT !.selected = selected]

(***************************************************************************)
(* connect_to_discord, lines 1362-1425.  running says whether the scan of  *)
(* lines 1371-1374 finds a Discord process; failures how many primary      *)
(* connection attempts fail before one succeeds (max_retries: all of       *)
(* them); pipe_error whether the failures carry "create_pipe_connection"   *)
(* in their text, which brings the attempt through pipe 0 with it; alt_at  *)
(* after which failure that attempt succeeds (0: after none).              *)
(***************************************************************************)
\* one connection attempt under the default identity
ConnectAttempt(ok) ==
    Call("connect", Presence(DISCORD_CLIENT_ID, ok), "", 0, ok)

\* a wait that grows by two seconds with every attempt
Backoff_Linear(retry_count) == 2 * retry_count

\* line 1413: wait_time = 2 ** retry_count
Backoff(retry_count) == 2 ^ retry_count

\* lines 1381-1425: the loop, entered with retry_count failures behind it
RECURSIVE ConnectLoop(_, _, _, _)
ConnectLoop(retry_count, failures, pipe_error, alt_at) ==
    LET none == [ok |-> FALSE, connected |-> FALSE, attempts |-> 0,
                 alt_attempts |-> 0, waits |-> <<>>, calls |-> <<>>]
        n == retry_count + 1
        alt == pipe_error /\ n < max_retries
    IN  IF ~(retry_count < max_retries) THEN none
        ELSE IF retry_count >= failures
        THEN [none EXCEPT !.ok = TRUE, !.connected = TRUE, !.attempts = 1,
                          !.calls = <<ConnectAttempt(TRUE)>>]
        ELSE IF alt /\ alt_at = n
        THEN [none EXCEPT !.ok = TRUE, !.connected = TRUE, !.attempts = 1,
                          !.alt_attempts = 1,
                          !.calls = <<ConnectAttempt(FALSE),
                                      ConnectAttempt(TRUE)>>]
        ELSE IF n < max_retries
        THEN LET rest == ConnectLoop(n, failures, pipe_error, alt_at)
             IN  [ok |-> rest.ok, connected |-> rest.connected,
                  attempts |-> 1 + rest.attempts,
                  alt_attempts |-> (IF alt THEN 1 ELSE 0) + rest.alt_attempts,
                  waits |-> <<Backoff(n)>> \o rest.waits,
                  calls |-> <<ConnectAttempt(FALSE)>>
                            \o (IF alt THEN <<ConnectAttempt(FALSE)>> ELSE <<>>)
                            \o rest.calls]
        ELSE [none EXCEPT !.attempts = 1, !.calls = <<ConnectAttempt(FALSE)>>]

connect_to_discord(rpc0, running, failures, pipe_error, alt_at) ==
    IF ~running
    THEN [rpc |-> rpc0, ok |-> FALSE, attempts |-> 0, alt_attempts |-> 0,
          waits |-> <<>>, calls |-> <<>>]
    ELSE LET l == ConnectLoop(0, failures, pipe_error, alt_at)
         IN  [rpc |-> Presence(DISCORD_CLIENT_ID, l.connected), ok |-> l.ok,
              attempts |-> l.attempts, alt_attempts |-> l.alt_attempts,
              waits |-> l.waits, calls |-> l.calls]

(***************************************************************************)
(* Process exit.                                                           *)
(***************************************************************************)
\* the cleanup with the two requests in the other order
safe_cleanup_CloseFirst(rpc0, be) ==
    LET closed == rpc0.open /\ be.clr
    IN  [rpc |-> IF rpc0.exists /\ closed THEN Presence(rpc0.id, FALSE) ELSE rpc0,
         calls |-> IF ~rpc0.exists THEN <<>>
                   ELSE IF closed
                        THEN << Call("close", rpc0, "", 0, TRUE),
                                Call("clear", Presence(rpc0.id, FALSE), "", 0, FALSE) >>
                        ELSE << Call("close", rpc0, "", 0, FALSE) >>]

\* safe_cleanup, lines 1427-1441: clear, then close, in one try block, so
\* that a clear that raises leaves the close out
safe_cleanup(rpc0, be) ==
    LET cleared == rpc0.open /\ be.clr
    IN  [rpc |-> IF rpc0.exists /\ cleared THEN Presence(rpc0.id, FALSE) ELSE rpc0,
         calls |-> IF ~rpc0.exists THEN <<>>
                   ELSE IF cleared
                        THEN << Call("clear", rpc0, "", 0, TRUE),
                                Call("close", rpc0, "", 0, TRUE) >>
                        ELSE << Call("clear", rpc0, "", 0, FALSE) >>]

\* line 1444: the functions registered with atexit; the finally block of
\* main (lines 1358-1360) and the end of the script (line 1485) call none
atexit_registry == <<"safe_cleanup">>

\* the configuration test that leaves the metadata key out
ConfigOk_ClientIdOnly(cfg) == cfg.client_id

\* main, lines 1297-1307: both keys are set in the environment
ConfigOk(cfg) == cfg.client_id /\ cfg.tmdb_key

\* the handler of the loop letting the exception through
AfterCycle_Reraise(raised) == IF raised THEN "exit" ELSE "loop"

\* main, lines 1325-1352: the handler of line 1342 catches what detect_media
\* raises, and the loop goes on to its sleep and to the next iteration
AfterCycle(raised) == "loop"

(***************************************************************************)
(* State.                                                                  *)
(***************************************************************************)
VARIABLES
    config,               \* which of DISCORD_CLIENT_ID and TMDB_API_KEY the
                          \* environment sets (lines 36-39)
    exit_status,          \* the status the process ended with, NoNum while
                          \* it runs
    cleanups,             \* how many times safe_cleanup has run
    probe,                \* the call of a pure function under examination
                          \* (the specification of the parsers only)
    pc,                   \* "start": main before its loop; "loop": in the
                          \* loop; "exit": the process has ended
    now,                  \* int(time.time()) at the next read of the clock
    rpc,                  \* the global rpc
    current_media,        \* the global current_media (the snapshot)
    start_timestamp,      \* the global start_timestamp, 0 for None
    discord_connected,    \* main's local
    consecutive_errors,   \* main's local
    consecutive_no_media, \* main's local
    current_interval,     \* main's local
    cycle,                \* what the last step did (observation only)
    refreshes             \* forced refreshes since start_timestamp was set
                          \* (observation only)

vars == <<pc, now, rpc, current_media, start_timestamp, discord_connected,
          consecutive_errors, consecutive_no_media, current_interval, cycle,
          refreshes, config, exit_status, cleanups, probe>>

NoCycle ==
    [kind |-> "none", sysR |-> None, natR |-> None, brwR |-> None,
     selected |-> NotWatching, path |-> "", rec |-> NotWatching,
     force |-> FALSE, pushed |-> FALSE, calls |-> <<>>, lookups |-> 0,
     t |-> 0, prev_media |-> None, prev_start |-> 0, prev_rpc |-> NoRpc,
     consulted |-> <<>>, prev_interval |-> 0, prev_no_media |-> 0,
     image |-> FALSE, attempts |-> 0, alt_attempts |-> 0, waits |-> <<>>]

\* no pure function is under examination
NoProbe == [fn |-> "", stage |-> "", title |-> <<>>, expect |-> None,
            windows |-> <<>>, fg |-> 0, procs |-> <<>>, out |-> None,
            hwnd |-> 0, details |-> <<>>, state |-> <<>>, large_image |-> "",
            service |-> "", cleaned_out |-> None]

Configs == [client_id : BOOLEAN, tmdb_key : BOOLEAN]

\* module level, lines 36-39 and 59-61, and the first lines of main's try
\* block
InitProgram ==
    /\ config \in Configs
    /\ exit_status = NoNum
    /\ cleanups = 0
    /\ pc = "start"
    /\ now = 1
    /\ rpc = NoRpc
    /\ current_media = None
    /\ start_timestamp = 0
    /\ discord_connected = FALSE
    /\ consecutive_errors = 0
    /\ consecutive_no_media = 0
    /\ current_interval = BaseInterval
    /\ cycle = NoCycle
    /\ refreshes = 0

Init == InitProgram /\ probe = NoProbe

\* main, lines 1292-1322, with both keys configured.  The clock of the
\* model counts from the entry into the loop; the waits of the connection
\* attempts are kept in the record of the step.
MainStart(running, failures, pipe_error, alt_at) ==
    /\ pc = "start"
    /\ ConfigOk(config)
    /\ \E c \in {connect_to_discord(rpc, running, failures, pipe_error, alt_at)} :
           /\ rpc' = c.rpc
           /\ discord_connected' = c.ok
           /\ cycle' = [NoCycle EXCEPT
                          !.kind = "start",
                          !.calls = c.calls,
                          !.attempts = c.attempts,
                          !.alt_attempts = c.alt_attempts,
                          !.waits = c.waits]
    /\ pc' = "loop"
    /\ UNCHANGED <<now, current_media, start_timestamp, consecutive_errors,
                   consecutive_no_media, current_interval, refreshes, config,
                   exit_status, cleanups, probe>>

\* main, lines 1329-1340: the interval after a cycle that did not raise
NextNoMedia(cur, count) == IF Truthy(cur) THEN 0 ELSE count + 1

\* the interval left as it is while something is watched
NextInterval_KeepWhenWatching(cur, count, interval) ==
    IF Truthy(cur) THEN interval
    ELSE IF count + 1 > IdleStep2 THEN LongInterval
    ELSE IF count + 1 > IdleStep1 THEN MidInterval
    ELSE interval

NextInterval(cur, count, interval) ==
    IF Truthy(cur) THEN BaseInterval
    ELSE IF count + 1 > IdleStep2 THEN LongInterval
    ELSE IF count + 1 > IdleStep1 THEN MidInterval
    ELSE interval

\* main, lines 1324-1352: one iteration of the loop, from the call of
\* detect_media to the end of the sleep
PollCycle(sysR, natR, brwEnv, be, proc, horizon) ==
    /\ pc = "loop"
    /\ now <= horizon
    /\ \E r \in {detect_media(current_media, start_timestamp, rpc, now,
                              sysR, natR, check_browser_tabs(brwEnv), be)} :
       \E threshold \in {r.raised /\ consecutive_errors + 1 >= ErrorThreshold
                                  /\ discord_connected} :
       \E rc \in {IF threshold THEN reconnect_discord(r.rpc, be)
                  ELSE [rpc |-> r.rpc, calls |-> <<>>, slept |-> 0,
                        ok |-> discord_connected]} :
           /\ current_media' = r.current_media
           /\ start_timestamp' = r.start_timestamp
           /\ rpc' = rc.rpc
           /\ discord_connected' = rc.ok
           /\ consecutive_errors' =
                IF ~r.raised \/ threshold THEN 0 ELSE consecutive_errors + 1
           /\ consecutive_no_media' =
                IF r.raised THEN consecutive_no_media
                ELSE NextNoMedia(r.current_media, consecutive_no_media)
           /\ current_interval' =
                IF r.raised THEN current_interval
                ELSE NextInterval(r.current_media, consecutive_no_media,
                                  current_interval)
           /\ now' = now + r.slept + rc.slept + current_interval' + proc
           /\ refreshes' =
                IF r.start_timestamp # start_timestamp THEN 0
                ELSE IF r.path = "sync" /\ r.force THEN refreshes + 1
                ELSE refreshes
           /\ cycle' = [kind |-> "poll", sysR |-> sysR, natR |-> natR,
                        brwR |-> check_browser_tabs(brwEnv),
                        selected |-> r.selected, path |-> r.path,
                        rec |-> r.rec, force |-> r.force, pushed |-> r.pushed,
                        calls |-> r.calls \o rc.calls, lookups |-> r.lookups,
                        t |-> now, prev_media |-> current_media,
                        prev_start |-> start_timestamp, prev_rpc |-> rpc,
                        consulted |-> Consulted(sysR, natR,
                                                check_browser_tabs(brwEnv)),
                        prev_interval |-> current_interval,
                        prev_no_media |-> consecutive_no_media,
                        image |-> r.image, attempts |-> 0,
                        alt_attempts |-> 0, waits |-> <<>>]
           /\ pc' = AfterCycle(r.raised)
    /\ UNCHANGED <<config, exit_status, cleanups, probe>>

\* the end of the process: the interpreter runs the functions registered
\* with atexit, whichever way main was left
ProcessExit(kind, status, rpc0, be) ==
    /\ pc' = "exit"
    /\ exit_status' = status
    /\ cleanups' = cleanups + Len(atexit_registry)
    /\ \E c \in {IF atexit_registry # <<>> THEN safe_cleanup(rpc0, be)
                  ELSE [rpc |-> rpc0, calls |-> <<>>]} :
           /\ rpc' = c.rpc
           /\ cycle' = [NoCycle EXCEPT !.kind = kind, !.calls = c.calls,
                                       !.t = now, !.prev_media = current_media,
                                       !.prev_start = start_timestamp,
                                       !.prev_rpc = rpc0]
    /\ UNCHANGED <<now, current_media, start_timestamp, discord_connected,
                   consecutive_errors, consecutive_no_media, current_interval,
                   refreshes, config, probe>>

\* main, lines 1297-1307: sys.exit(1) when a key is missing
ConfigExit(be) ==
    /\ pc = "start"
    /\ ~ConfigOk(config)
    /\ ProcessExit("config", 1, rpc, be)

\* connect_to_discord, lines 1371-1374: psutil reports None for the name of
\* a process it may not read, and None.lower() raises; the call of line
\* 1313 is outside main's try block, so the exception leaves main and is
\* caught at line 1483, where the script ends
StartupCrash(be) ==
    /\ pc = "start"
    /\ ConfigOk(config)
    /\ ProcessExit("crash", 0, rpc, be)

\* KeyboardInterrupt before the loop (lines 1310-1313; during_connect: the
\* interrupt falls into rpc.connect() of connect_to_discord, after line
\* 1384 has assigned rpc): it leaves main and is caught at line 1481
InterruptStart(during_connect, be) ==
    /\ pc = "start"
    /\ ConfigOk(config)
    /\ ProcessExit("interrupt", 0,
                   IF during_connect THEN Presence(DISCORD_CLIENT_ID, FALSE)
                   ELSE rpc, be)

\* KeyboardInterrupt in the sleep of the loop (line 1352), caught at line 1354
InterruptLoop(be) ==
    /\ pc = "loop"
    /\ ProcessExit("interrupt", 0, rpc, be)

Start == \E running \in BOOLEAN, failures \in 0..max_retries,
            pipe_error \in BOOLEAN, alt_at \in 0..(max_retries - 1) :
            MainStart(running, failures, pipe_error, alt_at)

Poll == \E sysR \in SysResults, natR \in NatResults, brwEnv \in BrowserEnvs,
           be \in Backends :
            PollCycle(sysR, natR, brwEnv, be, 0, MaxTime)

Exit == \E be \in Backends : ConfigExit(be) \/ StartupCrash(be)

Interrupt == \E be \in Backends :
                \/ \E during_connect \in BOOLEAN : InterruptStart(during_connect, be)
                \/ InterruptLoop(be)

Next == Start \/ Poll \/ Exit \/ Interrupt

Spec == Init /\ [][Next]_vars

(***************************************************************************)
(* The long-running specification: Discord is up, one title is watched in  *)
(* the native application from the first cycle on, and the viewer may move *)
(* on from episode 1 to episode 2.  It covers more than one refresh period.*)
(***************************************************************************)
InitLong == Init /\ ConfigOk(config)

StartLong == MainStart(TRUE, 0, FALSE, 0)

PollLong == \E natR \in (IF current_media = N_ShowA2 THEN {N_ShowA2}
                         ELSE {N_ShowA1, N_ShowA1Titled, N_ShowA2}),
               proc \in 0..MaxProc :
               PollCycle(None, natR, "none", BackendUp, proc, MaxLongTime)

NextLong == StartLong \/ PollLong

SpecLong == InitLong /\ [][NextLong]_vars

(***************************************************************************)
(* The idle specification: nothing is being watched, a cycle finds either  *)
(* no candidate or one the filters reject, until a cycle detects a title,   *)
(* which ends the idle run.  It covers more than twenty consecutive idle   *)
(* cycles.                                                                 *)
(***************************************************************************)
StartIdle == \E running \in BOOLEAN : MainStart(running, 0, FALSE, 0)

PollIdle == \E natR \in {None, N_HelpCenter, N_ShowA1}, proc \in 0..MaxProc :
               /\ ~Truthy(current_media)
               /\ PollCycle(None, natR, "none", BackendUp, proc, MaxIdleTime)

NextIdle == StartIdle \/ PollIdle

SpecIdle == InitLong /\ [][NextIdle]_vars

(***************************************************************************)
(* The push specification: the native application shows a Netflix show or  *)
(* a Disney+ film, and the backend answers each request of a cycle in any  *)
(* way.  It covers every course of the tiered update.                      *)
(***************************************************************************)
Answers == [conn : BOOLEAN, clr : BOOLEAN, t1 : {"ok", "timeout", "error"},
            reconn : BOOLEAN, retry : BOOLEAN, t2 : BOOLEAN, t3 : BOOLEAN,
            img : BOOLEAN]

StartPush == \E running \in BOOLEAN, failures \in {0, max_retries} :
                MainStart(running, failures, FALSE, 0)

PollPush == \E natR \in {N_ShowA1, N_Encanto}, be \in Answers :
               PollCycle(None, natR, "none", be, 0, MaxPushTime)

NextPush == StartPush \/ PollPush

SpecPush == InitLong /\ [][NextPush]_vars

(***************************************************************************)
(* The specification of the collectors' pure parts: a parser is applied to *)
(* a window title, check_native_apps to a desktop.  A title is put         *)
(* together from its parts (name, season, episode, episode title,          *)
(* branding), and the parts are kept as what the parse should give back.   *)
(***************************************************************************)
Names == { <<"S","t","r","a","n","g","e","r"," ","T","h","i","n","g","s">>,
           <<"U","p">>, <<"A",":"," ","B","e">> }

\* a number as the title writes it and as int() reads it
Numbers == { [text |-> <<"1">>, value |-> 1],
             [text |-> <<"0","2">>, value |-> 2],
             [text |-> <<"1","0">>, value |-> 10] }

NetflixEpisodeTitles == { <<>>, <<"C","h","a","p","t","e","r"," ","O","n","e">>,
                          <<"R","e","c","a","p",":"," ","S","1",":","E","2">> }
DisneyEpisodeTitles == { <<>>, <<"C","h","a","p","t","e","r"," ","O","n","e">>,
                         <<"R","e","c","a","p"," ","-"," ","S","1","E","2">> }

\* titles without the service's episode pattern
NetflixMovies == { <<"E","n","c","a","n","t","o">>, <<"U","p",":"," ","S","1">>,
                   <<"U","p",":","S","1",":","E","1">>, <<"S","1",":","E","1">>,
                   <<"U","p"," ","-"," ","S","1","E","1">> }
DisneyMovies == { <<"E","n","c","a","n","t","o">>, <<"U","p"," ","-"," ","S","1">>,
                  <<"U","p"," ","-","S","1","E","1">>, <<"S","1","E","1">>,
                  <<"U","p",":"," ","S","1",":","E","1">> }

Padding == { <<>>, <<" ">> }

\* "<Name>: S<d>:E<d>[ <EpisodeTitle>]"
NetflixEpisodic(name, season, episode, episodeTitle) ==
    name \o <<":"," ","S">> \o season \o <<":","E">> \o episode
         \o (IF episodeTitle = <<>> THEN <<>> ELSE <<" ">> \o episodeTitle)

\* "<Name> - S<d>E<d>[ - <EpisodeTitle>]"
DisneyEpisodic(name, season, episode, episodeTitle) ==
    name \o <<" ","-"," ","S">> \o season \o <<"E">> \o episode
         \o (IF episodeTitle = <<>> THEN <<>>
             ELSE <<" ","-"," ">> \o episodeTitle)

\* the brandings a window title carries: what precedes and what follows
\* the text
NetflixBrandings == { [pre |-> <<>>, post |-> <<>>],
                      [pre |-> NetflixPrefix, post |-> <<>>] }
DisneyBrandings == { [pre |-> <<>>, post |-> <<>>],
                     [pre |-> DisneyPrefix, post |-> <<>>],
                     [pre |-> <<>>, post |-> DisneyBranding[1]],
                     [pre |-> <<>>, post |-> DisneyBranding[2]],
                     [pre |-> <<>>, post |-> DisneyBranding[3]] }

ParseProbe(fn, title, expect) ==
    [NoProbe EXCEPT !.fn = fn, !.stage = "in", !.title = title,
                    !.expect = expect]

NetflixProbes ==
    { ParseProbe("parse_netflix_title",
                 b.pre \o NetflixEpisodic(n, se.text, ep.text, et) \o b.post,
                 Parsed(n, "show", se.value, ep.value, et)) :
        b \in NetflixBrandings, n \in Names, se \in Numbers, ep \in Numbers,
        et \in NetflixEpisodeTitles }
    \cup
    { ParseProbe("parse_netflix_title", b.pre \o pad \o m \o pad \o b.post,
                 Parsed(m, "movie", NoNum, NoNum, <<>>)) :
        b \in NetflixBrandings, m \in NetflixMovies, pad \in Padding }

DisneyProbes ==
    { ParseProbe("parse_disney_title",
                 b.pre \o DisneyEpisodic(n, se.text, ep.text, et) \o b.post,
                 Parsed(n, "show", se.value, ep.value, et)) :
        b \in DisneyBrandings, n \in Names, se \in Numbers, ep \in Numbers,
        et \in DisneyEpisodeTitles }
    \cup
    { ParseProbe("parse_disney_title", b.pre \o pad \o m \o pad \o b.post,
                 Parsed(m, "movie", NoNum, NoNum, <<>>)) :
        b \in DisneyBrandings, m \in DisneyMovies, pad \in Padding }

\* the titles of the windows of a desktop
W_NetflixShowA1 == <<"N","e","t","f","l","i","x"," ","-"," ","S","h","o","w"," ","A",":"," ","S","1",":","E","1">>
W_DisneyEncanto == <<"D","i","s","n","e","y","+"," ","-"," ","E","n","c","a","n","t","o">>
W_NetflixSettings == <<"N","e","t","f","l","i","x"," ","s","e","t","t","i","n","g","s">>
W_Notes == <<"n","o","t","e","s">>
WindowTitles == {W_NetflixShowA1, W_DisneyEncanto, W_NetflixSettings, W_Notes}

\* the desktops: up to MaxWindows windows, the i-th of the enumeration
\* having the handle i
Desktops ==
    UNION { { [i \in 1..n |-> Window(i, titles[i], shown[i])] :
                titles \in [1..n -> WindowTitles], shown \in [1..n -> BOOLEAN] } :
            n \in 0..MaxWindows }

NativeProbes ==
    { [NoProbe EXCEPT !.fn = "check_native_apps", !.stage = "in",
                      !.windows = d, !.fg = fg] :
        d \in Desktops, fg \in 0..MaxWindows }

\* the process lists and the windows for check_system_processes: the
\* services' own processes, generic hosts without and with the service in
\* the command line, and windows of either service, of a browser with
\* several tabs and of the bare Disney+ application
P_DisneyExe == Proc(<<"D","i","s","n","e","y","+",".","e","x","e">>, <<>>)
P_NetflixExe == Proc(<<"N","e","t","f","l","i","x",".","e","x","e">>, <<>>)
P_FrameHost == Proc(<<"A","p","p","l","i","c","a","t","i","o","n","F","r","a","m","e","H","o","s","t",".","e","x","e">>, <<>>)
P_Explorer == Proc(<<"e","x","p","l","o","r","e","r",".","e","x","e">>, <<>>)
P_NetflixHost == Proc(<<"W","W","A","H","o","s","t",".","e","x","e">>, <<"-","S","e","r","v","e","r","N","a","m","e",":","N","e","t","f","l","i","x",".","A","p","p">>)
ProcessPool == {P_DisneyExe, P_NetflixExe, P_FrameHost, P_Explorer, P_NetflixHost}

W_DisneyBare == DISNEY_APP_NAME
W_NetflixTabs == <<"N","e","t","f","l","i","x"," ","a","n","d"," ","3"," ","m","o","r","e"," ","p","a","g","e","s">>
SystemTitles == {W_NetflixShowA1, W_DisneyEncanto, W_DisneyBare, W_NetflixTabs}

ProcessLists == UNION { [1..n -> ProcessPool] : n \in 0..MaxProcs }

SystemDesktops ==
    UNION { { [i \in 1..n |-> Window(i, titles[i], TRUE)] :
                titles \in [1..n -> SystemTitles] } : n \in 0..MaxWindows }

SystemProbe(ps, d) ==
    [NoProbe EXCEPT !.fn = "check_system_processes", !.stage = "in",
                    !.procs = ps, !.windows = d]

\* records for the display fields of update_presence: shows with season
\* and episode numbers from 0 on, with and without an episode title, movies
\* and generic records, under a short title and one longer than the limit
T_ChapterOne == <<"C","h","a","p","t","e","r"," ","O","n","e">>
LongTitle == [i \in 1..(MaxDisplayLen + 4) |-> "a"]
ShownNumbers == {0, 1, 10}

DisplayRecords ==
    { Media(sv, n, "show", se, ep, et, FALSE) :
        sv \in {Netflix, Disney}, n \in {T_ShowA, LongTitle},
        se \in ShownNumbers, ep \in ShownNumbers, et \in {<<>>, T_ChapterOne} }
    \cup
    { Media(sv, n, ty, NoNum, NoNum, <<>>, ty = "unknown") :
        sv \in {Netflix, Disney}, n \in {T_Encanto, LongTitle},
        ty \in {"movie", "unknown"} }

DisplayProbes ==
    { [NoProbe EXCEPT !.fn = "update_presence", !.stage = "in", !.expect = m] :
        m \in DisplayRecords }

\* titles for parsing before and after clean_title: the titles of the
\* parser probes, and titles with the service's name after the text, with
\* the "Watch " prefix or with a browser's name
W_EncantoNetflix == T_Encanto \o NetflixCleanPatterns[1]
W_WatchEncanto == WatchPrefix \o T_Encanto \o DisneyCleanPatterns[1]
NetflixBranded ==
    { p.title : p \in NetflixProbes }
    \cup { W_NetflixShowA1, W_EncantoNetflix,
           T_Encanto \o NetflixCleanPatterns[2],
           W_NetflixShowA1 \o <<" "," ">> \o BrowserSuffixes[1] }
DisneyBranded ==
    { p.title : p \in DisneyProbes }
    \cup { W_WatchEncanto, W_DisneyEncanto \o <<" ">> \o BrowserSuffixes[1] }

ReparseProbes ==
    { [NoProbe EXCEPT !.fn = "reparse", !.stage = "in", !.title = t,
                      !.service = Netflix] : t \in NetflixBranded }
    \cup
    { [NoProbe EXCEPT !.fn = "reparse", !.stage = "in", !.title = t,
                      !.service = Disney] : t \in DisneyBranded }

\* titles of the windows of a running browser: a branded tab of either
\* service, the services' addresses, a documentation page, a page of
\* neither service
W_TabNetflix == <<"S","t","r","a","n","g","e","r"," ","T","h","i","n","g","s"," ","-"," ","N","e","t","f","l","i","x"," ","-"," ","G","o","o","g","l","e"," ","C","h","r","o","m","e">>
W_TabNetflixUrl == <<"n","e","t","f","l","i","x",".","c","o","m","/","w","a","t","c","h"," ","-"," ","G","o","o","g","l","e"," ","C","h","r","o","m","e">>
W_TabDisney == <<"E","n","c","a","n","t","o"," ","|"," ","D","i","s","n","e","y","+"," ","-"," ","G","o","o","g","l","e"," ","C","h","r","o","m","e">>
W_TabDisneyUrl == <<"w","w","w",".","d","i","s","n","e","y","p","l","u","s",".","c","o","m","/","v","i","d","e","o"," ","-"," ","G","o","o","g","l","e"," ","C","h","r","o","m","e">>
W_TabReadme == <<"r","e","a","d","m","e",".","m","d"," ","-"," ","N","e","t","f","l","i","x"," ","-"," ","G","o","o","g","l","e"," ","C","h","r","o","m","e">>
W_TabNotes == <<"n","o","t","e","s"," ","-"," ","G","o","o","g","l","e"," ","C","h","r","o","m","e">>
BrowserTitles == {W_TabNetflix, W_TabNetflixUrl, W_TabDisney, W_TabDisneyUrl,
                  W_TabReadme, W_TabNotes}

BrowserProbes ==
    { [NoProbe EXCEPT !.fn = "check_browser_tabs", !.stage = "in",
                      !.title = t] : t \in BrowserTitles }

\* records for the blanket filter: a title around each of its terms, in
\* lower and in upper case, and titles without a term, from either kind of
\* collector
FilterTitles ==
    { <<"T","h","e"," ">> \o t \o <<" ","S","a","g","a">> : t \in BlanketTerms }
    \cup { Upper(t) : t \in BlanketTerms }
    \cup { T_ShowA, T_Encanto, T_DisneyContent, <<"U","p">> }

FilterProbes ==
    { [NoProbe EXCEPT !.fn = "blanket_filter", !.stage = "in", !.title = t,
                      !.expect = Media(sv, t, "movie", NoNum, NoNum, <<>>, by)] :
        t \in FilterTitles, sv \in {Netflix, Disney}, by \in BOOLEAN }

InitPure ==
    /\ InitProgram
    /\ ConfigOk(config)
    /\ \/ probe \in NetflixProbes \cup DisneyProbes \cup NativeProbes
                       \cup FilterProbes \cup DisplayProbes
                       \cup ReparseProbes \cup BrowserProbes
       \/ \E ps \in ProcessLists, d \in SystemDesktops :
             probe = SystemProbe(ps, d)

Program == <<pc, now, rpc, current_media, start_timestamp, discord_connected,
             consecutive_errors, consecutive_no_media, current_interval, cycle,
             refreshes, config, exit_status, cleanups>>

ParseNetflix ==
    /\ probe.fn = "parse_netflix_title" /\ probe.stage = "in"
    /\ probe' = [probe EXCEPT !.stage = "out",
                              !.out = parse_netflix_title(probe.title)]
    /\ UNCHANGED Program

ParseDisney ==
    /\ probe.fn = "parse_disney_title" /\ probe.stage = "in"
    /\ probe' = [probe EXCEPT !.stage = "out",
                              !.out = parse_disney_title(probe.title)]
    /\ UNCHANGED Program

CheckNative ==
    /\ probe.fn = "check_native_apps" /\ probe.stage = "in"
    /\ \E apps \in {StreamingApps(probe.windows, probe.fg)} :
         probe' = [probe EXCEPT
                     !.stage = "out",
                     !.out = check_native_apps(probe.windows, probe.fg),
                     !.hwnd = IF apps = <<>> THEN 0
                              ELSE SelectApp(apps, probe.fg).window_hwnd]
    /\ UNCHANGED Program

\* detect_media, lines 1144-1167, on the record under examination
FilterRecord ==
    /\ probe.fn = "blanket_filter" /\ probe.stage = "in"
    /\ probe' = [probe EXCEPT !.stage = "out",
                              !.out = BlanketFilter(probe.expect)]
    /\ UNCHANGED Program

CheckSystem ==
    /\ probe.fn = "check_system_processes" /\ probe.stage = "in"
    /\ probe' = [probe EXCEPT
                   !.stage = "out",
                   !.out = check_system_processes(probe.procs, probe.windows)]
    /\ UNCHANGED Program

\* update_presence, lines 684-717: the fields of the basic activity
DisplayFields ==
    /\ probe.fn = "update_presence" /\ probe.stage = "in"
    /\ probe' = [probe EXCEPT
                   !.stage = "out",
                   !.details = display_title(probe.expect),
                   !.state = state_line(probe.expect),
                   !.large_image = large_image_key(probe.expect.service)]
    /\ UNCHANGED Program

\* lines 838 and 848: the parser of the service
ParserOf(service, title) ==
    IF service = Netflix THEN parse_netflix_title(title)
    ELSE parse_disney_title(title)

\* the service's parser on a title and on what clean_title makes of it
Reparse ==
    /\ probe.fn = "reparse" /\ probe.stage = "in"
    /\ probe' = [probe EXCEPT
                   !.stage = "out",
                   !.out = ParserOf(probe.service, probe.title),
                   !.cleaned_out =
                      ParserOf(probe.service,
                               clean_title(probe.title, probe.service))]
    /\ UNCHANGED Program

\* check_browser_tabs with one window of a running browser
CheckBrowser ==
    /\ probe.fn = "check_browser_tabs" /\ probe.stage = "in"
    /\ probe' = [probe EXCEPT
                   !.stage = "out",
                   !.out = check_browser_tabs(BrowserEnvOf(probe.title))]
    /\ UNCHANGED Program

NextPure ==
    \/ ParseNetflix \/ ParseDisney \/ CheckNative \/ FilterRecord
    \/ CheckSystem \/ DisplayFields \/ Reparse \/ CheckBrowser

SpecPure == InitPure /\ [][NextPure]_vars

(***************************************************************************)
(* Properties.                                                             *)
(***************************************************************************)
\* the last step was a poll cycle whose record passed the filters and
\* reached the state machine
Accepted == cycle.kind = "poll" /\ cycle.path \in {"sync", "noop"}

\* the last step was a poll cycle whose result was isWatching=false
NotWatchingCycle == cycle.kind = "poll" /\ cycle.path \in {"none", "blanket", "pattern"}

\* the record of the last cycle differs from the snapshot the cycle found
\* in service, title, season or episode, or the cycle found no snapshot
DiffersFromSnapshot ==
    \/ cycle.prev_media = None
    \/ cycle.rec.service # cycle.prev_media.service
    \/ cycle.rec.title # cycle.prev_media.title
    \/ cycle.rec.season # cycle.prev_media.season
    \/ cycle.rec.episode # cycle.prev_media.episode

\* the clock read by the last cycle is at a forced-refresh boundary of the
\* start_timestamp the cycle found
AtRefreshBoundary ==
    /\ cycle.prev_start # 0
    /\ (cycle.t - cycle.prev_start) % RefreshPeriod < RefreshWindow

\* the calls of the last step that reached the backend as presence updates
SentUpdates ==
    { i \in DOMAIN cycle.calls :
        cycle.calls[i].op = "update" /\ cycle.calls[i].open }

\* the presence updates of the last step that the backend accepted
DeliveredUpdates == { i \in SentUpdates : cycle.calls[i].ok }

ClearCalls == { i \in DOMAIN cycle.calls : cycle.calls[i].op = "clear" }

\* C1: every presence update that reaches the backend for a record of
\* service S goes over a connection opened under the client identity bound
\* to S.
C1_UpdateUnderServiceIdentity ==
    \A i \in DeliveredUpdates :
        cycle.calls[i].id = ClientIdFor(cycle.calls[i].service)

\* C2: a cycle whose accepted record differs from the snapshot (or finds no
\* snapshot) triggers a synchronization and sets start_timestamp to the
\* cycle's current time.
C2_ChangeResetsTimer ==
    (Accepted /\ DiffersFromSnapshot)
        => (cycle.path = "sync" /\ start_timestamp = cycle.t)

\* C3: a cycle whose accepted record equals the snapshot and whose clock is
\* not at a forced-refresh boundary sends nothing to the backend, makes no
\* metadata lookup and leaves snapshot and start_timestamp as they were.
C3_UnchangedIsNoOp ==
    (Accepted /\ ~DiffersFromSnapshot /\ ~AtRefreshBoundary)
        => /\ cycle.calls = <<>>
           /\ cycle.lookups = 0
           /\ current_media = cycle.prev_media
           /\ start_timestamp = cycle.prev_start
           /\ rpc = cycle.prev_rpc

C3_Witness ==
    /\ Accepted /\ ~DiffersFromSnapshot /\ ~AtRefreshBoundary
    /\ cycle.prev_media = N_ShowA2
    /\ cycle.t - cycle.prev_start > RefreshPeriod

\* C4: the snapshot is created or replaced only by a cycle whose push to the
\* backend succeeded.
C4_SnapshotOnlyOnSuccess ==
    (cycle.kind = "poll" /\ Truthy(current_media)
       /\ current_media # cycle.prev_media)
        => cycle.pushed

\* C5: when the push of a cycle failed and the next cycle accepts the same
\* record, the next cycle attempts the push again.
C5_FailedPushRetried ==
    [][ ( /\ cycle.kind = "poll" /\ cycle.path = "sync" /\ ~cycle.pushed
          /\ cycle'.kind = "poll" /\ cycle'.path \in {"sync", "noop"}
          /\ cycle'.rec = cycle.rec )
        => \E i \in DOMAIN cycle'.calls : cycle'.calls[i].op = "update" ]_vars

\* C6: while the same content is detected, once a whole refresh period and
\* its window have elapsed since start_timestamp a forced synchronization
\* has been triggered.
C6_RefreshEveryPeriod ==
    (Accepted /\ cycle.t - start_timestamp >= RefreshPeriod + RefreshWindow)
        => refreshes >= 1

\* C7: start_timestamp is modified only by a cycle whose accepted record
\* differs from the snapshot; a forced refresh of unchanged content leaves
\* it as it was.
C7_RefreshKeepsTimer ==
    (cycle.kind = "poll" /\ start_timestamp # cycle.prev_start)
        => (Accepted /\ DiffersFromSnapshot)

C7_Witness ==
    /\ cycle.kind = "poll" /\ cycle.path = "sync"
    /\ ~DiffersFromSnapshot
    /\ AtRefreshBoundary
    /\ \E i \in DOMAIN cycle.calls : cycle.calls[i].op = "update"
    /\ start_timestamp = cycle.prev_start

BoundToOtherService ==
    /\ cycle.prev_rpc.open
    /\ cycle.prev_rpc.id \in {NETFLIX_CLIENT_ID, DISNEY_CLIENT_ID}
    /\ cycle.prev_rpc.id # ClientIdFor(cycle.rec.service)

\* C9: when the accepted record's service differs from the service the
\* connection is bound to, the connection is closed and one is opened under
\* the identity of the new service before any update for the record is sent.
C9_ReopenBeforeUpdate ==
    (cycle.kind = "poll" /\ cycle.path = "sync" /\ BoundToOtherService)
        => \A k \in SentUpdates :
             \E i, j \in 1..(k - 1) :
                /\ i < j
                /\ cycle.calls[i].op = "close"
                /\ cycle.calls[j].op = "connect"
                /\ cycle.calls[j].ok
                /\ cycle.calls[j].id = ClientIdFor(cycle.rec.service)

\* C10: the record a cycle evaluates is the system-process collector's
\* candidate when there is one, else the native-app collector's, else the
\* browser-tab collector's; it is never a mix of two results.
C10_StrictCascade ==
    (cycle.kind = "poll" /\ cycle.path # "raise")
        => /\ Truthy(cycle.sysR) => cycle.selected = cycle.sysR
           /\ (~Truthy(cycle.sysR) /\ Truthy(cycle.natR))
                 => cycle.selected = cycle.natR
           /\ (~Truthy(cycle.sysR) /\ ~Truthy(cycle.natR) /\ Truthy(cycle.brwR))
                 => cycle.selected = cycle.brwR
           /\ cycle.selected \in {cycle.sysR, cycle.natR, cycle.brwR, NotWatching}

C10_Witness ==
    /\ cycle.kind = "poll"
    /\ Truthy(cycle.sysR) /\ Truthy(cycle.natR)
    /\ cycle.sysR.service # cycle.natR.service
    /\ cycle.selected = cycle.sysR
    /\ current_media = cycle.sysR

\* the calls of the last step that asked the backend client for an update
UpdateCalls == { i \in DOMAIN cycle.calls : cycle.calls[i].op = "update" }

\* the candidate of the highest-priority collector that returned one in the
\* last cycle
FirstFound ==
    IF Truthy(cycle.sysR) THEN cycle.sysR
    ELSE IF Truthy(cycle.natR) THEN cycle.natR
    ELSE cycle.brwR

\* the filters of detect_media turn the candidate down
RejectedByFilter(m) ==
    /\ Truthy(m) /\ m.isWatching
    /\ \/ ~BlanketFilter(m).isWatching
       \/ ~m.detected_by_system /\ ContainsAny(Lower(m.title), ignore_patterns)

\* C11: when the filters reject the candidate of the first collector that
\* returned one, the cycle ends with isWatching=false: the collectors of
\* lower priority are not called in that cycle and no update is sent.
C11_RejectionIsFinal ==
    (cycle.kind = "poll" /\ cycle.path # "raise" /\ RejectedByFilter(FirstFound))
        => /\ NotWatchingCycle
           /\ cycle.selected = FirstFound
           /\ UpdateCalls = {}
           /\ current_media = None
           /\ Truthy(cycle.sysR) => cycle.consulted = <<"system">>
           /\ ~Truthy(cycle.sysR) => cycle.consulted = <<"system", "native">>

C11_Witness ==
    /\ cycle.kind = "poll" /\ cycle.path = "blanket"
    /\ cycle.sysR = S_ReadmeNotes
    /\ cycle.natR = N_ShowA1
    /\ cycle.consulted = <<"system">>
    /\ cycle.prev_media = N_ShowA1
    /\ UpdateCalls = {}

\* C12: a cycle whose selected candidate was not detected by the
\* system-process collector and whose title contains, in any letter case, a
\* pattern of the classifier's list sends no update, stores no snapshot and
\* drops the snapshot it found.
C12_MarkedTitleNeverPushed ==
    ( /\ cycle.kind = "poll" /\ cycle.path # "raise"
      /\ cycle.selected.isWatching
      /\ ~cycle.selected.detected_by_system
      /\ ContainsAny(Lower(cycle.selected.title), ignore_patterns) )
        => /\ UpdateCalls = {}
           /\ current_media = None

C12_Witness ==
    /\ cycle.kind = "poll" /\ cycle.path = "pattern"
    /\ cycle.selected = N_HelpCenter
    /\ Truthy(cycle.prev_media)
    /\ cycle.prev_rpc.open
    /\ UpdateCalls = {}
    /\ current_media = None

\* C13: a candidate of the system-process collector is never turned into
\* isWatching=false because of its title: the cycle that selects it reaches
\* the state machine.
C13_SystemCandidateTrusted ==
    (cycle.kind = "poll" /\ Truthy(cycle.sysR) /\ cycle.sysR.detected_by_system)
        => Accepted

\* a call of the last step that the backend client or the backend refused
FailedCalls == { i \in DOMAIN cycle.calls : ~cycle.calls[i].ok }

\* C14: a poll cycle never ends the loop, whether a collector raised in it
\* or a request to the backend failed: the loop has slept for the interval
\* and is ready for the next cycle; the process ends only by an interrupt or,
\* before the loop, by the configuration test or a failure of the startup.
C14_LoopSurvivesFailures ==
    /\ cycle.kind = "poll"
         => /\ pc = "loop"
            /\ exit_status = NoNum
            /\ now >= cycle.t + current_interval
    /\ pc = "exit" => cycle.kind \in {"interrupt", "config", "crash"}

C14_Witness ==
    /\ cycle.kind = "poll" /\ pc = "loop"
    /\ cycle.path = "raise"
    /\ consecutive_errors = 2

\* a cycle of which the basic update was accepted and a later tier refused,
\* and which left the loop running
C14_TierWitness ==
    /\ cycle.kind = "poll" /\ pc = "loop"
    /\ cycle.pushed
    /\ \E i \in UpdateCalls : cycle.calls[i].tier > 1 /\ ~cycle.calls[i].ok

\* C15: when the process has ended, by an interrupt, by the failed
\* configuration test or by a failure of the startup, safe_cleanup has run
\* exactly once (and not before the end); with a backend client present its
\* first request is the clear, a close is only issued after the clear, and
\* follows it when the clear succeeds.
C15_CleanupOnceClearFirst ==
    /\ pc # "exit" => cleanups = 0
    /\ pc = "exit"
         => /\ cleanups = 1
            /\ ~cycle.prev_rpc.exists => cycle.calls = <<>>
            /\ cycle.prev_rpc.exists
                 => /\ cycle.calls # <<>>
                    /\ cycle.calls[1].op = "clear"
                    /\ \A i \in DOMAIN cycle.calls :
                         cycle.calls[i].op = "close" => i = 2
                    /\ cycle.calls[1].ok
                         => Len(cycle.calls) = 2 /\ cycle.calls[2].op = "close"

C15_Witness ==
    /\ pc = "exit" /\ cycle.kind = "interrupt"
    /\ cleanups = 1
    /\ cycle.prev_rpc.open
    /\ Truthy(current_media)
    /\ Len(cycle.calls) = 2
    /\ cycle.calls[1].op = "clear" /\ cycle.calls[2].op = "close"

\* C17: a cycle queries the metadata lookup once when its accepted record
\* differs from the snapshot, and not at all otherwise; in particular not in
\* a cycle that only refreshes unchanged content.
C17_LookupOnlyOnChange ==
    cycle.kind = "poll"
        => cycle.lookups = (IF Accepted /\ DiffersFromSnapshot THEN 1 ELSE 0)

C16_IdleIntervalSteps ==
    NotWatchingCycle
        => current_interval =
             (IF consecutive_no_media >= IdleStep2 THEN LongInterval
              ELSE IF consecutive_no_media >= IdleStep1 THEN MidInterval
              ELSE BaseInterval)

\* the windows of the examined desktop that make a candidate: the title
\* names a service, and a window that is not the foreground window is not
\* one of those line 870 passes over
CandidateWindows ==
    { i \in DOMAIN probe.windows :
        /\ \/ Contains(probe.windows[i].title, NETFLIX_APP_NAME)
           \/ Contains(probe.windows[i].title, DISNEY_APP_NAME)
        /\ \/ probe.windows[i].hwnd = probe.fg
           \/ ~ContainsAny(Lower(probe.windows[i].title), NativeIgnored) }

C18_MinimizedWitness ==
    /\ probe.fn = "check_native_apps" /\ probe.stage = "out"
    /\ Len(probe.windows) = 3
    /\ probe.fg = 0
    /\ probe.windows[1].title = W_Notes
    /\ probe.windows[2].title = W_DisneyEncanto /\ ~probe.windows[2].visible
    /\ probe.windows[3].title = W_NetflixShowA1 /\ probe.windows[3].visible
    /\ probe.hwnd = 2
    /\ probe.out = N_Encanto

ReconnectCalls ==
    { i \in DOMAIN cycle.calls :
        /\ cycle.kind = "poll"
        /\ cycle.calls[i].op = "connect"
        /\ cycle.calls[i].service = "" }

\* the service whose record is being broadcast when the last cycle
\* reconnects: the record of the push, or the snapshot
BroadcastService ==
    IF cycle.path = "sync" THEN cycle.rec.service
    ELSE IF Truthy(current_media) THEN current_media.service
    ELSE ""

\* C21: a reconnect closes the client it finds and then opens a connection
\* under the client identity of the service being broadcast at that time.
C21_ReconnectUnderServiceIdentity ==
    \A i \in ReconnectCalls :
        /\ i > 1
        /\ cycle.calls[i - 1].op = "close"
        /\ BroadcastService # ""
             => cycle.calls[i].id = ClientIdFor(BroadcastService)

\* a reconnect that replaces a connection opened for Netflix by one under
\* the default identity, during a push for Netflix
C21_IdentityLost ==
    \E i \in ReconnectCalls :
        /\ i > 1
        /\ cycle.calls[i - 1].id = NETFLIX_CLIENT_ID
        /\ cycle.calls[i].id = DISCORD_CLIENT_ID
        /\ cycle.rec.service = Netflix
        /\ rpc.id = DISCORD_CLIENT_ID

\* the update requests of the last cycle that belong to tier n of the push
Tier(n) == { i \in UpdateCalls : cycle.calls[i].tier = n }

\* C22: in one push the basic update is sent at most twice; a second one
\* follows only a first one that failed with the pipe-timeout signature and
\* a reconnect that succeeded; after a basic update that failed in another
\* way nothing more is requested, and after a failed reconnect no basic
\* update is sent.
C22_BasicUpdateAtMostTwice ==
    cycle.kind = "poll"
        => /\ Cardinality(Tier(1)) <= 2
           /\ \A i, j \in Tier(1) :
                i < j => /\ ~cycle.calls[i].ok
                         /\ cycle.calls[i].timeout
                         /\ \E k \in ReconnectCalls :
                              i < k /\ k < j /\ cycle.calls[k].ok
           /\ \A i \in Tier(1) :
                (~cycle.calls[i].ok /\ ~cycle.calls[i].timeout)
                    => Len(cycle.calls) = i
           /\ \A k \in ReconnectCalls :
                ~cycle.calls[k].ok
                    => /\ Len(cycle.calls) = k
                       /\ Cardinality(Tier(1)) <= 1

C22_Witness ==
    /\ cycle.kind = "poll" /\ cycle.path = "sync"
    /\ Cardinality(Tier(1)) = 2
    /\ \E i, j \in Tier(1) :
         /\ i < j
         /\ cycle.calls[i].timeout
         /\ cycle.calls[j].ok
    /\ cycle.pushed

\* the basic update refused on a live connection without the signature
C22_RefusedWitness ==
    /\ cycle.kind = "poll" /\ cycle.path = "sync"
    /\ Len(cycle.calls) = 1
    /\ cycle.calls[1].op = "update" /\ cycle.calls[1].open
    /\ ~cycle.calls[1].ok /\ ~cycle.calls[1].timeout

\* the pipe timeout followed by a reconnect that fails
C22_LostWitness ==
    /\ cycle.kind = "poll" /\ cycle.path = "sync"
    /\ Cardinality(Tier(1)) = 1
    /\ \E i \in Tier(1) : cycle.calls[i].timeout
    /\ \E k \in ReconnectCalls : ~cycle.calls[k].ok
    /\ ~rpc.open

\* the last cycle pushed a record
Pushing == cycle.kind = "poll" /\ cycle.path = "sync"

\* the backend accepted a basic update of the last cycle
BasicAccepted == \E i \in Tier(1) : cycle.calls[i].ok

\* the push of the last cycle counts as done and the cycle as a success
PushStands ==
    /\ cycle.pushed
    /\ pc = "loop"
    /\ consecutive_errors = 0
    /\ current_media = cycle.rec
    /\ \A i \in ClearCalls : \A j \in UpdateCalls : i < j

\* C23: a push sends the image update exactly when a basic update was
\* accepted and the metadata lookup supplied an image; it is the accepted
\* activity with the image added, sent once and after the basic updates;
\* when it fails the push still stands and no basic update is sent again.
C23_ImageTierAfterBasic ==
    Pushing
        => /\ (Tier(2) # {}) <=> (BasicAccepted /\ cycle.image)
           /\ Cardinality(Tier(2)) <= 1
           /\ \A k \in Tier(2) :
                /\ cycle.calls[k].small_image
                /\ cycle.calls[k].buttons = 0
                /\ \A i \in Tier(1) : i < k
                /\ ~cycle.calls[k].ok => PushStands

C23_Witness ==
    /\ Pushing
    /\ BasicAccepted /\ cycle.image
    /\ \E k \in Tier(2) : ~cycle.calls[k].ok
    /\ Cardinality(Tier(1)) = 1
    /\ PushStands

\* an accepted basic update without an image from the lookup
C23_NoImageWitness ==
    /\ Pushing
    /\ BasicAccepted /\ ~cycle.image
    /\ Tier(2) = {}

C24_RefusedWitness ==
    /\ Pushing
    /\ Tier(2) = {}
    /\ \E k \in Tier(3) : ~cycle.calls[k].ok
    /\ PushStands

\* C25: the count of consecutive failed cycles never stays at the threshold
\* of 3: the cycle that brings it there attempts a reconnect and resets it,
\* whether main's connection flag is set or not.
C25_ReconnectAfterThreeFailures ==
    /\ consecutive_errors < ErrorThreshold
    /\ (cycle.kind = "poll" /\ cycle.path = "raise" /\ consecutive_errors = 0)
         => ReconnectCalls # {}

\* the third failed cycle in a row of a process that connected at startup
C25_ConnectedReconnects ==
    /\ cycle.kind = "poll" /\ cycle.path = "raise"
    /\ consecutive_errors = 0
    /\ ReconnectCalls # {}
    /\ cycle.prev_rpc.open

\* C26: the connection procedure of the startup ends after at most 5
\* primary attempts; it waits 2^k seconds after the k-th failed one, for k
\* from 1 to 4, and gives up at the 5th without a wait; main then enters its
\* loop, whose first cycle runs and broadcasts nothing.
C26_StartupConnectBounded ==
    /\ cycle.kind = "start"
         => /\ pc = "loop"
            /\ cycle.attempts <= max_retries
            /\ cycle.alt_attempts <= max_retries - 1
            /\ Len(cycle.calls) = cycle.attempts + cycle.alt_attempts
            /\ Len(cycle.waits) <= max_retries - 1
            /\ \A k \in DOMAIN cycle.waits : cycle.waits[k] = 2 ^ k
            /\ Len(cycle.waits) =
                 (IF cycle.attempts = 0 THEN 0 ELSE cycle.attempts - 1)
            /\ (~discord_connected /\ cycle.attempts > 0)
                 => /\ cycle.attempts = max_retries
                    /\ cycle.waits = <<2, 4, 8, 16>>
                    /\ rpc.exists /\ ~rpc.open
    /\ ( /\ cycle.kind = "poll" /\ cycle.t = 1
         /\ cycle.prev_rpc.exists /\ ~cycle.prev_rpc.open )
         => /\ pc = "loop"
            /\ SentUpdates = {}

C26_Witness ==
    /\ cycle.kind = "start" /\ pc = "loop"
    /\ ~discord_connected
    /\ cycle.attempts = max_retries
    /\ cycle.alt_attempts = max_retries - 1
    /\ cycle.waits = <<2, 4, 8, 16>>
    /\ rpc = Presence(DISCORD_CLIENT_ID, FALSE)

\* the first cycle after the startup gave up detects a title and its update
\* does not reach the backend
C26_DetectionOnlyWitness ==
    /\ cycle.kind = "poll" /\ cycle.t = 1
    /\ ~discord_connected
    /\ cycle.prev_rpc = Presence(DISCORD_CLIENT_ID, FALSE)
    /\ cycle.path = "sync"
    /\ current_media = N_ShowA1
    /\ UpdateCalls # {} /\ SentUpdates = {}

\* the attempt through pipe 0 connects after the third failure
C26_AlternativeWitness ==
    /\ cycle.kind = "start" /\ discord_connected
    /\ cycle.attempts = 3 /\ cycle.alt_attempts = 3
    /\ cycle.waits = <<2, 4>>
    /\ rpc.open

\* C27: an exception of a collector never leaves the cascade: the cycle goes
\* on as if the collector had found nothing, so after a failure of the
\* native-app collector the browser-tab collector is consulted, and after a
\* failure of the last collector the cycle ends with isWatching=false.
C27_CollectorFailureContained ==
    cycle.kind = "poll"
        => /\ cycle.path # "raise"
           /\ (~Truthy(cycle.sysR) /\ cycle.natR = Raised)
                => cycle.consulted = <<"system", "native", "browser">>
           /\ (~Truthy(cycle.sysR) /\ ~Truthy(cycle.natR) /\ cycle.brwR = Raised)
                => cycle.selected = NotWatching

\* C28: when the process ends with an open connection, the cleanup issues
\* the close request, whether its clear request succeeded or failed.
C28_CloseOnEveryExit ==
    (pc = "exit" /\ cycle.prev_rpc.open)
        => \E i \in DOMAIN cycle.calls : cycle.calls[i].op = "close"

C29_EveryTerm ==
    (probe.fn = "blanket_filter" /\ probe.stage = "out")
        => IF ContainsAny(Lower(probe.title), BlanketTerms)
           THEN probe.out = NotWatching
           ELSE Len(probe.title) >= MinTitleLen => probe.out = probe.expect

C29_EveryTermWitness ==
    /\ probe.fn = "blanket_filter" /\ probe.stage = "out"
    /\ probe.title = <<"S","T","R","E","A","M","I","N","G">>
    /\ probe.expect.detected_by_system
    /\ probe.out = NotWatching

\* C30: a cycle that detects and accepts a record leaves the poll interval
\* at 5 s and the count of idle cycles at zero, whatever they were before.
C30_DetectionResetsInterval ==
    Accepted
        => /\ current_interval = BaseInterval
           /\ consecutive_no_media = 0

C30_Witness ==
    /\ Accepted /\ cycle.path = "sync"
    /\ cycle.prev_interval = LongInterval
    /\ cycle.prev_no_media > IdleStep2
    /\ current_interval = BaseInterval
    /\ consecutive_no_media = 0

\* the detection that ends an idle run at the middle interval
C30_MidWitness ==
    /\ Accepted /\ cycle.path = "sync"
    /\ cycle.prev_interval = MidInterval
    /\ cycle.prev_no_media > IdleStep1
    /\ current_interval = BaseInterval
    /\ consecutive_no_media = 0

\* C31: a cycle that ends with isWatching=false and finds no snapshot sends
\* no request to the backend and leaves snapshot, start_timestamp and the
\* connection as they were.
C31_IdleIsNoOp ==
    (NotWatchingCycle /\ ~Truthy(cycle.prev_media))
        => /\ cycle.calls = <<>>
           /\ cycle.lookups = 0
           /\ current_media = cycle.prev_media
           /\ start_timestamp = cycle.prev_start
           /\ rpc = cycle.prev_rpc

C31_Witness ==
    /\ NotWatchingCycle /\ ~Truthy(cycle.prev_media)
    /\ cycle.path = "pattern"
    /\ cycle.prev_rpc.open
    /\ cycle.prev_start # 0
    /\ cycle.calls = <<>>
    /\ start_timestamp = cycle.prev_start

\* C32: every record that reaches the state machine with isWatching=true,
\* and so every record kept in the snapshot, has a non-empty title.
C32_TitleNeverEmpty ==
    /\ Accepted => cycle.rec.title # <<>>
    /\ Truthy(current_media) => current_media.title # <<>>

\* the system collector hands over the parser's empty title: the window of
\* the Disney+ application is titled "Disney+" and Disney+.exe is running
C32_EmptyTitleCollected ==
    /\ probe.fn = "check_system_processes" /\ probe.stage = "out"
    /\ probe.procs = <<P_DisneyExe>>
    /\ probe.windows = <<Window(1, W_DisneyBare, TRUE)>>
    /\ probe.out = S_DisneyBare

\* C33: the status line of the basic update is "S<season>:E<episode>", with
\* " - <episodeTitle>" after it when the record has an episode title, for
\* every show record that has a season and an episode number, whatever
\* numbers from 0 on they are, and "Watching on <Service>" for a movie or
\* unknown record; the displayed title has at most 100 characters and the
\* image key is determined by the service.
C33_StatusLine ==
    (probe.fn = "update_presence" /\ probe.stage = "out")
        => LET m == probe.expect
           IN  /\ (m.type = "show" /\ m.season # NoNum /\ m.episode # NoNum)
                    => probe.state =
                         <<"S">> \o Str(m.season) \o <<":","E">> \o Str(m.episode)
                         \o (IF m.episodeTitle # <<>>
                             THEN <<" ","-"," ">> \o m.episodeTitle ELSE <<>>)
               /\ m.type \in {"movie", "unknown"}
                    => probe.state = <<"W","a","t","c","h","i","n","g"," ","o","n"," ">> \o ServiceText(m.service)
               /\ Len(probe.details) <= MaxDisplayLen
               /\ probe.large_image =
                    (IF m.service = Netflix THEN "netflix" ELSE "disney")

\* the parts of C33 that do not depend on the numbers: the line of movies
\* and generic records, the length of the title and the image key
C33_OtherFields ==
    (probe.fn = "update_presence" /\ probe.stage = "out")
        => LET m == probe.expect
           IN  /\ (m.type = "show" /\ m.season > 0 /\ m.episode > 0)
                    => probe.state =
                         <<"S">> \o Str(m.season) \o <<":","E">> \o Str(m.episode)
                         \o (IF m.episodeTitle # <<>>
                             THEN <<" ","-"," ">> \o m.episodeTitle ELSE <<>>)
               /\ m.type \in {"movie", "unknown"}
                    => probe.state = <<"W","a","t","c","h","i","n","g"," ","o","n"," ">> \o ServiceText(m.service)
               /\ Len(probe.details) <= MaxDisplayLen
               /\ probe.large_image =
                    (IF m.service = Netflix THEN "netflix" ELSE "disney")

\* a show record with season 0 is shown as a movie
C33_SeasonZero ==
    /\ probe.fn = "update_presence" /\ probe.stage = "out"
    /\ probe.expect.type = "show"
    /\ probe.expect.season = 0 /\ probe.expect.episode = 1
    /\ probe.state = <<"W","a","t","c","h","i","n","g"," ","o","n"," ">> \o ServiceText(probe.expect.service)

\* C34: for every title and service, the service's parser gives the same
\* record (title, type, season, episode, episodeTitle) on the title and on
\* the title cleaned of branding.
C34_BrandingInsensitive ==
    (probe.fn = "reparse" /\ probe.stage = "out")
        => probe.out = probe.cleaned_out

\* "Encanto - Netflix": the parser keeps the suffix in the title, the
\* cleaned text parses to "Encanto"
C34_SuffixKept ==
    /\ probe.fn = "reparse" /\ probe.stage = "out"
    /\ probe.title = W_EncantoNetflix
    /\ probe.out = Parsed(W_EncantoNetflix, "movie", NoNum, NoNum, <<>>)
    /\ probe.cleaned_out = Parsed(T_Encanto, "movie", NoNum, NoNum, <<>>)

\* titles whose only branding is one the parser removes itself parse alike
C34_PrefixWitness ==
    /\ probe.fn = "reparse" /\ probe.stage = "out"
    /\ probe.title = W_NetflixShowA1
    /\ probe.out = probe.cleaned_out
    /\ probe.out = Parsed(T_ShowA, "show", 1, 1, <<>>)

\* C35: for a window of a running, supported browser whose title carries a
\* service signature (the service's name or its address) and no
\* documentation marker, the browser collector returns a candidate with
\* isWatching=true for that service, of type unknown when only the address
\* names the service.
C35_BrowserTabDetected ==
    (/\ probe.fn = "check_browser_tabs" /\ probe.stage = "out"
     /\ BrowserEnvOf(probe.title) = "tab")
        => /\ probe.out.isWatching
           /\ probe.out.service = ServiceSignature(probe.title)
           /\ (~Contains(probe.title, NETFLIX_APP_NAME)
               /\ ~Contains(probe.title, DISNEY_APP_NAME))
                 => probe.out.type = "unknown"

\* a branded Netflix tab in a running browser, and no candidate
C35_TabMissed ==
    /\ probe.fn = "check_browser_tabs" /\ probe.stage = "out"
    /\ probe.title = W_TabNetflix
    /\ probe.out = None

\* the largest number of connections open at once while the calls are
\* made, n being open before them: a connect that succeeds opens one, a
\* close on an open connection closes one
RECURSIVE MaxOpen(_, _)
MaxOpen(calls, n) ==
    IF calls = <<>> THEN n
    ELSE LET c == Head(calls)
             after == IF c.op = "connect" /\ c.ok THEN n + 1
                      ELSE IF c.op = "close" /\ c.open /\ n > 0 THEN n - 1
                      ELSE n
             rest == MaxOpen(Tail(calls), after)
         IN  IF rest > n THEN rest ELSE n

\* C36: at most one connection to the backend is open at any point of a
\* poll cycle: a connection is opened only after the one that was open has
\* been closed, also when the clear request before the close fails.
C36_OneConnectionOpen ==
    cycle.kind = "poll"
        => MaxOpen(cycle.calls, IF cycle.prev_rpc.open THEN 1 ELSE 0) <= 1

\* a service change whose clear request fails: the connection under the
\* new identity is opened and the old one was never closed
C36_OldConnectionLeft ==
    /\ cycle.kind = "poll" /\ cycle.path = "sync"
    /\ cycle.prev_rpc.open
    /\ Truthy(cycle.prev_media) /\ cycle.prev_media.service # cycle.rec.service
    /\ \E i \in DOMAIN cycle.calls :
         cycle.calls[i].op = "clear" /\ ~cycle.calls[i].ok
    /\ \A i \in DOMAIN cycle.calls : cycle.calls[i].op # "close"
    /\ rpc.open /\ rpc.id # cycle.prev_rpc.id

\* C37: no update of any tier is attempted on a connection that is not
\* established: after a failed connect, at startup or when the connection
\* is reopened for another service, the cycle makes no update call.
C37_NoUpdateWhenUnconnected ==
    cycle.kind = "poll"
        => \A i \in DOMAIN cycle.calls :
             cycle.calls[i].op = "update" => cycle.calls[i].open

\* the reopen for another service fails and the basic update is attempted
\* all the same
C37_UpdateAfterFailedReopen ==
    /\ cycle.kind = "poll" /\ cycle.path = "sync"
    /\ Truthy(cycle.prev_media) /\ cycle.prev_media.service # cycle.rec.service
    /\ \E i, j \in DOMAIN cycle.calls :
         /\ i < j
         /\ cycle.calls[i].op = "connect" /\ ~cycle.calls[i].ok
         /\ cycle.calls[j].op = "update" /\ cycle.calls[j].tier = 1
         /\ ~cycle.calls[j].open

\* the connection failed at startup and the first detection attempts the
\* basic update on the client that never connected
C37_UpdateAfterFailedStartup ==
    /\ cycle.kind = "poll" /\ cycle.path = "sync"
    /\ ~Truthy(cycle.prev_media)
    /\ cycle.prev_rpc.exists /\ ~cycle.prev_rpc.open
    /\ \E j \in DOMAIN cycle.calls :
         cycle.calls[j].op = "update" /\ ~cycle.calls[j].open

\* C38: an accepted record that agrees with the snapshot in service,
\* title, season and episode and differs from it in the episode title or
\* the type only starts no synchronization and leaves the snapshot as it
\* was, unless the cycle is at a forced-refresh boundary.
C38_OnlyKeyFieldsCompared ==
    (/\ Accepted /\ ~DiffersFromSnapshot
     /\ cycle.rec # cycle.prev_media
     /\ ~AtRefreshBoundary)
        => /\ cycle.path = "noop"
           /\ cycle.calls = <<>> /\ cycle.lookups = 0
           /\ current_media = cycle.prev_media
           /\ start_timestamp = cycle.prev_start

C38_Witness ==
    /\ Accepted /\ ~AtRefreshBoundary
    /\ cycle.prev_media = N_ShowA1 /\ cycle.rec = N_ShowA1Titled
    /\ cycle.path = "noop" /\ cycle.calls = <<>>
    /\ current_media = N_ShowA1

\* at a forced-refresh boundary the record with the other episode title is
\* pushed and becomes the snapshot
C38_BoundaryWitness ==
    /\ Accepted /\ AtRefreshBoundary
    /\ cycle.prev_media = N_ShowA1 /\ cycle.rec = N_ShowA1Titled
    /\ cycle.path = "sync"
    /\ current_media = N_ShowA1Titled

\* the last step was a poll cycle that synchronized because of the forced
\* refresh alone
ForcedRefresh ==
    /\ cycle.kind = "poll" /\ cycle.path = "sync" /\ cycle.force
    /\ ~DiffersFromSnapshot

\* the last step was a poll cycle that synchronized a changed record
ContentChange ==
    cycle.kind = "poll" /\ cycle.path = "sync" /\ DiffersFromSnapshot

\* the refresh boundary of the last cycle: the number of whole refresh
\* periods between the start_timestamp it found and its clock
Boundary == (cycle.t - cycle.prev_start) \div RefreshPeriod

\* C39: poll cycles are at least 5 s apart; with unchanged content a
\* forced-refresh synchronization is never followed by another one at the
\* same 180-second boundary, and the poll cycle that follows a content
\* change is never a forced-refresh synchronization.
C39_OneRefreshPerBoundary ==
    [][ /\ (cycle.kind = "poll" /\ cycle'.kind = "poll")
            => cycle'.t >= cycle.t + BaseInterval
        /\ (ForcedRefresh /\ ForcedRefresh' /\ cycle'.prev_start = cycle.prev_start)
            => Boundary' # Boundary
        /\ ContentChange => ~ForcedRefresh' ]_vars

\* the cycle that follows a forced refresh, 5 to 9 s later and past the
\* window of the boundary, synchronizes nothing
C39_Witness ==
    /\ cycle.kind = "poll" /\ cycle.path = "noop"
    /\ refreshes = 1
    /\ Boundary = 1
    /\ (cycle.t - cycle.prev_start) % RefreshPeriod \in
         RefreshWindow..(RefreshWindow + BaseInterval - 1)

\* the probe's desktop shows a window of the service and the process list
\* holds a process that can host it
SeenWithHost(names, app_name) ==
    /\ \E i \in DOMAIN probe.windows : Contains(probe.windows[i].title, app_name)
    /\ \E i \in DOMAIN probe.procs : Lower(probe.procs[i].name) \in names

\* C40: when the system collector sees a Disney+ window with a process that
\* can host it and a Netflix window with a process that can host it, it
\* returns the Disney+ candidate, in whatever order the processes and the
\* windows are enumerated.
C40_DisneyBeforeNetflix ==
    (/\ probe.fn = "check_system_processes" /\ probe.stage = "out"
     /\ SeenWithHost(disney_process_names, DISNEY_APP_NAME)
     /\ SeenWithHost(netflix_process_names, NETFLIX_APP_NAME))
        => /\ probe.out.isWatching
           /\ probe.out.service = Disney
           /\ probe.out.detected_by_system

\* Netflix.exe and the Netflix window are enumerated first
C40_Witness ==
    /\ probe.fn = "check_system_processes" /\ probe.stage = "out"
    /\ probe.procs = <<P_NetflixExe, P_DisneyExe>>
    /\ probe.windows = <<Window(1, W_NetflixShowA1, TRUE),
                         Window(2, W_DisneyEncanto, TRUE)>>
    /\ probe.out = Media(Disney, T_Encanto, "movie", NoNum, NoNum, <<>>, TRUE)

\* one generic host process for both windows
C40_SharedHostWitness ==
    /\ probe.fn = "check_system_processes" /\ probe.stage = "out"
    /\ probe.procs = <<P_FrameHost>>
    /\ probe.windows = <<Window(1, W_NetflixShowA1, TRUE),
                         Window(2, W_DisneyEncanto, TRUE)>>
    /\ probe.out.service = Disney

\* without a process that can host Disney+ the Netflix candidate is returned
C40_NetflixOnlyWitness ==
    /\ probe.fn = "check_system_processes" /\ probe.stage = "out"
    /\ probe.procs = <<P_NetflixExe>>
    /\ probe.windows = <<Window(1, W_NetflixShowA1, TRUE),
                         Window(2, W_DisneyEncanto, TRUE)>>
    /\ probe.out = Media(Netflix, T_ShowA, "show", 1, 1, <<>>, TRUE)

====
